---------------------------- MODULE Spec2Model ----------------------------
(* Model of the TCO calculation engine (ui/src/lib/calculator.ts).         *)
(* Numbers are exact rationals [n, d] in lowest terms with d >= 0; d = 0   *)
(* stands for the non-finite doubles (n = 1: Infinity, n = -1: -Infinity,  *)
(* n = 0: NaN) that a division by zero produces. A rational too large for  *)
(* native integers is kept as digit sequences [sn, mn, md].                *)
EXTENDS Integers, Sequences, FiniteSets, TLC

\* ------------------------------------------------------------------
\* Integer helpers
\* ------------------------------------------------------------------
Abs(x) == IF x < 0 THEN -x ELSE x

Sign(x) == IF x < 0 THEN -1 ELSE IF x > 0 THEN 1 ELSE 0

RECURSIVE GCD(_, _)
GCD(a, b) == IF b = 0 THEN a ELSE GCD(b, a % b)

\* `const x = value; body`: value is computed once and body reads the result
Const(value, body(_)) == CHOOSE r \in { body(x) : x \in { value } } : TRUE

\* ------------------------------------------------------------------
\* Integers beyond the checker's native range: a magnitude is the sequence
\* of its base-10000 digits, least significant first, without leading zeros
\* ------------------------------------------------------------------
Base == 10000

\* the largest native integer
MaxInt == 2147483647

\* x * y stays within the native range
MulFits(x, y) == x = 0 \/ y = 0 \/ Abs(x) <= MaxInt \div Abs(y)

RECURSIVE MagOf(_)
MagOf(k) == IF k = 0 THEN << >> ELSE << k % Base >> \o MagOf(k \div Base)

RECURSIVE MagInt(_)
MagInt(m) == IF m = << >> THEN 0 ELSE Head(m) + Base * MagInt(Tail(m))

RECURSIVE MagTrim(_)
MagTrim(m) ==
  IF m = << >> THEN m
  ELSE IF m[Len(m)] = 0 THEN MagTrim(SubSeq(m, 1, Len(m) - 1)) ELSE m

RECURSIVE MagCmpFrom(_, _, _)
MagCmpFrom(a, b, i) ==
  IF i = 0 THEN 0
  ELSE IF a[i] < b[i] THEN -1
  ELSE IF a[i] > b[i] THEN 1
  ELSE MagCmpFrom(a, b, i - 1)

\* -1, 0 or 1 as a is below, equal to or above b
MagCmp(a, b) ==
  IF Len(a) < Len(b) THEN -1
  ELSE IF Len(a) > Len(b) THEN 1
  ELSE MagCmpFrom(a, b, Len(a))

RECURSIVE MagAddC(_, _, _)
MagAddC(a, b, c) ==
  IF a = << >> /\ b = << >> THEN (IF c = 0 THEN << >> ELSE << c >>)
  ELSE IF a = << >> THEN
    << (Head(b) + c) % Base >> \o MagAddC(a, Tail(b), (Head(b) + c) \div Base)
  ELSE IF b = << >> THEN
    << (Head(a) + c) % Base >> \o MagAddC(Tail(a), b, (Head(a) + c) \div Base)
  ELSE
    << (Head(a) + Head(b) + c) % Base >>
      \o MagAddC(Tail(a), Tail(b), (Head(a) + Head(b) + c) \div Base)

MagAdd(a, b) == MagAddC(a, b, 0)

\* a - b - br for a >= b + br, digit by digit
RECURSIVE MagSubB(_, _, _)
MagSubB(a, b, br) ==
  IF a = << >> THEN << >>
  ELSE IF b = << >> THEN
    (IF Head(a) - br < 0
     THEN << Head(a) - br + Base >> \o MagSubB(Tail(a), b, 1)
     ELSE << Head(a) - br >> \o MagSubB(Tail(a), b, 0))
  ELSE
    (IF Head(a) - Head(b) - br < 0
     THEN << Head(a) - Head(b) - br + Base >> \o MagSubB(Tail(a), Tail(b), 1)
     ELSE << Head(a) - Head(b) - br >> \o MagSubB(Tail(a), Tail(b), 0))

MagSub(a, b) == MagTrim(MagSubB(a, b, 0))

\* a * k + c for one digit k and a carry c below Base
RECURSIVE MagMulSmallC(_, _, _)
MagMulSmallC(a, k, c) ==
  IF a = << >> THEN (IF c = 0 THEN << >> ELSE << c >>)
  ELSE << (Head(a) * k + c) % Base >>
         \o MagMulSmallC(Tail(a), k, (Head(a) * k + c) \div Base)

MagMulSmall(a, k) == IF k = 0 THEN << >> ELSE MagMulSmallC(a, k, 0)

\* The operations below reach one another through Long, by name:
\* Long("MagMul", a, b) is MagMul(a, b)
RECURSIVE Long(_, _, _)

MagMul(a, b) ==
  IF a = << >> \/ b = << >> THEN << >>
  ELSE IF Len(b) = 1 THEN Long("MagMulSmall", a, b[1])
  ELSE Long("MagAdd", Long("MagMulSmall", a, Head(b)), << 0 >> \o Long("MagMul", a, Tail(b)))

\* the largest digit q in lo..hi with b * q <= r
RECURSIVE MagDigit(_, _, _, _)
MagDigit(r, b, lo, hi) ==
  IF lo = hi THEN lo
  ELSE IF Long("MagCmp", Long("MagMulSmall", b, (lo + hi + 1) \div 2), r) <= 0
       THEN MagDigit(r, b, (lo + hi + 1) \div 2, hi)
       ELSE MagDigit(r, b, lo, (lo + hi + 1) \div 2 - 1)

\* the leading digits of r, a value below b * Base, at the place of b's
\* leading digit
MagLead(r, b) ==
  IF Len(r) > Len(b) THEN r[Len(b) + 1] * Base + r[Len(b)]
  ELSE IF Len(r) = Len(b) THEN r[Len(b)]
  ELSE 0

\* bounds of the quotient digit of r by b from the leading digits
MagDigitLow(r, b) ==
  IF MagLead(r, b) \div (b[Len(b)] + 1) < Base - 1
  THEN MagLead(r, b) \div (b[Len(b)] + 1) ELSE Base - 1

MagDigitHigh(r, b) ==
  IF MagLead(r, b) \div b[Len(b)] < Base - 1
  THEN MagLead(r, b) \div b[Len(b)] ELSE Base - 1

\* long division of the digits i..1 of a by b, entered with the remainder r
\* of the digits above them
RECURSIVE MagDivModFrom(_, _, _, _)
MagDivModFrom(a, b, i, r) ==
  IF i = 0 THEN [q |-> << >>, r |-> r]
  ELSE Const(MagTrim(<< a[i] >> \o r), LAMBDA cur :
       Const(MagDigit(cur, b, MagDigitLow(cur, b), MagDigitHigh(cur, b)), LAMBDA digit :
       Const(MagDivModFrom(a, b, i - 1, Long("MagSub", cur, Long("MagMulSmall", b, digit))), LAMBDA rest :
         [q |-> rest.q \o << digit >>, r |-> rest.r])))

\* quotient and remainder of a by b, b not zero
MagDivMod(a, b) ==
  Const(MagDivModFrom(a, b, Len(a), << >>), LAMBDA x :
    [q |-> MagTrim(x.q), r |-> x.r])

MagGcd(a, b) ==
  IF b = << >> THEN a ELSE Long("MagGcd", b, Long("MagDivMod", a, b).r)

\* ------------------------------------------------------------------
\* Rational arithmetic (the code's `number`). A finite value whose
\* numerator and denominator are native integers is [n, d]; one that needs
\* more is [sn, mn, md]: sign, numerator magnitude, denominator magnitude
\* ------------------------------------------------------------------
IsWide(x) == "mn" \in DOMAIN x

MagFits(m) == Long("MagCmp", m, MagOf(MaxInt)) <= 0

Norm(n, d) ==
  IF d = 0 THEN [n |-> Sign(n), d |-> 0]
  ELSE LET g == GCD(Abs(n), Abs(d))
           s == Sign(d)
       IN  [n |-> s * (n \div g), d |-> s * (d \div g)]

R(k) == [n |-> k, d |-> 1]

Q(n, d) == Norm(n, d)

IsFinite(x) == IsWide(x) \/ x.d # 0

IsNaN(x) == ~IsWide(x) /\ x.d = 0 /\ x.n = 0

RSign(x) == IF IsWide(x) THEN x.sn ELSE Sign(x.n)

\* a finite value in the long form
WOf(x) ==
  IF IsWide(x) THEN x
  ELSE [sn |-> Sign(x.n), mn |-> MagOf(Abs(x.n)), md |-> MagOf(x.d)]

\* x.s * x.m / md in lowest terms, in the short form when it fits
WNorm(x, md) ==
  Const(Long("MagGcd", x.m, md), LAMBDA g :
  Const(Long("MagDivMod", x.m, g).q, LAMBDA num :
  Const(Long("MagDivMod", md, g).q, LAMBDA den :
    IF MagFits(num) /\ MagFits(den)
    THEN [n |-> x.s * MagInt(num), d |-> MagInt(den)]
    ELSE [sn |-> x.s, mn |-> num, md |-> den])))

\* a + b as a sign and a magnitude, for two such pairs
SignedAdd(a, b) ==
  IF a.s = 0 THEN b
  ELSE IF b.s = 0 THEN a
  ELSE IF a.s = b.s THEN [s |-> a.s, m |-> Long("MagAdd", a.m, b.m)]
  ELSE IF Long("MagCmp", a.m, b.m) = 0 THEN [s |-> 0, m |-> << >>]
  ELSE IF Long("MagCmp", a.m, b.m) > 0 THEN [s |-> a.s, m |-> Long("MagSub", a.m, b.m)]
  ELSE [s |-> b.s, m |-> Long("MagSub", b.m, a.m)]

WAdd(a, b) ==
  Long("WNorm",
       Long("SignedAdd", [s |-> a.sn, m |-> Long("MagMul", a.mn, b.md)],
                         [s |-> b.sn, m |-> Long("MagMul", b.mn, a.md)]),
       Long("MagMul", a.md, b.md))

WMul(a, b) ==
  Long("WNorm", [s |-> a.sn * b.sn, m |-> Long("MagMul", a.mn, b.mn)],
       Long("MagMul", a.md, b.md))

WLt(a, b) ==
  IF a.sn # b.sn THEN a.sn < b.sn
  ELSE IF a.sn = 0 THEN FALSE
  ELSE a.sn * Long("MagCmp", Long("MagMul", a.mn, b.md), Long("MagMul", b.mn, a.md)) < 0

\* the digits of |x| * p rounded to an integer, over p, for a power of ten p
WtoFixed(x, p) ==
  Const(Long("MagDivMod", Long("MagMul", x.mn, p.mn), x.md), LAMBDA qr :
    Long("WNorm",
         [s |-> x.sn,
          m |-> IF Long("MagCmp", Long("MagMulSmall", qr.r, 2), x.md) >= 0
                THEN Long("MagAdd", qr.q, << 1 >>) ELSE qr.q],
         p.mn))

Long(op, a, b) ==
  CASE op = "MagCmp"    -> MagCmp(a, b)
    [] op = "MagAdd"    -> MagAdd(a, b)
    [] op = "MagSub"    -> MagSub(a, b)
    [] op = "MagMulSmall" -> MagMulSmall(a, b)
    [] op = "MagMul"    -> MagMul(a, b)
    [] op = "MagDivMod" -> MagDivMod(a, b)
    [] op = "MagGcd"    -> MagGcd(a, b)
    [] op = "SignedAdd" -> SignedAdd(a, b)
    [] op = "WNorm"     -> WNorm(a, b)
    [] op = "WAdd"      -> WAdd(a, b)
    [] op = "WMul"      -> WMul(a, b)
    [] op = "WLt"       -> WLt(a, b)
    [] op = "WtoFixed"  -> WtoFixed(a, b)

\* a long-form operation applied to two finite values
Wide(op, a, b) == Long(op, WOf(a), WOf(b))

\* a + b needs native integers only
AddFits(a, b) ==
  /\ ~IsWide(a)
  /\ ~IsWide(b)
  /\ LET g == GCD(a.d, b.d)
     IN  /\ MulFits(a.n, b.d \div g)
         /\ MulFits(b.n, a.d \div g)
         /\ MulFits(a.d \div g, b.d)
         /\ Abs(a.n * (b.d \div g)) <= MaxInt - Abs(b.n * (a.d \div g))

RAdd(a, b) ==
  IF ~IsFinite(a) /\ ~IsFinite(b)
  THEN (IF a.n = b.n THEN a ELSE [n |-> 0, d |-> 0])
  ELSE IF ~IsFinite(a) THEN a
  ELSE IF ~IsFinite(b) THEN b
  ELSE IF AddFits(a, b)
  THEN LET g == GCD(a.d, b.d)
       IN  Norm(a.n * (b.d \div g) + b.n * (a.d \div g), (a.d \div g) * b.d)
  ELSE Wide("WAdd", a, b)

RNeg(a) ==
  IF IsWide(a) THEN [sn |-> -a.sn, mn |-> a.mn, md |-> a.md]
  ELSE [n |-> -a.n, d |-> a.d]

RSub(a, b) == RAdd(a, RNeg(b))

\* a * b needs native integers only
MulFitsR(a, b) ==
  /\ ~IsWide(a)
  /\ ~IsWide(b)
  /\ MulFits(a.n \div GCD(Abs(a.n), b.d), b.n \div GCD(Abs(b.n), a.d))
  /\ MulFits(a.d \div GCD(Abs(b.n), a.d), b.d \div GCD(Abs(a.n), b.d))

RMul(a, b) ==
  IF ~IsFinite(a) \/ ~IsFinite(b) THEN [n |-> RSign(a) * RSign(b), d |-> 0]
  ELSE IF MulFitsR(a, b)
  THEN LET g1 == GCD(Abs(a.n), b.d)
           g2 == GCD(Abs(b.n), a.d)
       IN  Norm((a.n \div g1) * (b.n \div g2), (a.d \div g2) * (b.d \div g1))
  ELSE Wide("WMul", a, b)

RInv(a) ==
  IF IsWide(a) THEN [sn |-> a.sn, mn |-> a.md, md |-> a.mn]
  ELSE IF a.d = 0 THEN (IF a.n = 0 THEN a ELSE R(0))
  ELSE IF a.n = 0 THEN [n |-> 1, d |-> 0]
  ELSE IF a.n < 0 THEN [n |-> -a.d, d |-> -a.n]
  ELSE [n |-> a.d, d |-> a.n]

\* a / b as IEEE division: x/0 is +-Infinity, 0/0 is NaN
RDiv(a, b) ==
  IF ~IsWide(b) /\ b.d # 0 /\ b.n = 0 THEN [n |-> RSign(a), d |-> 0]
  ELSE RMul(a, RInv(b))

\* comparing a with b needs native integers only
LtFits(a, b) ==
  /\ ~IsWide(a)
  /\ ~IsWide(b)
  /\ MulFits(a.n, b.d \div GCD(a.d, b.d))
  /\ MulFits(b.n, a.d \div GCD(a.d, b.d))

\* comparisons; every comparison with NaN is false
RLt(a, b) ==
  IF IsNaN(a) \/ IsNaN(b) THEN FALSE
  ELSE IF ~IsFinite(a) THEN a.n < 0 /\ ~(~IsFinite(b) /\ b.n < 0)
  ELSE IF ~IsFinite(b) THEN b.n > 0
  ELSE IF LtFits(a, b)
  THEN LET g == GCD(a.d, b.d)
       IN  a.n * (b.d \div g) < b.n * (a.d \div g)
  ELSE Wide("WLt", a, b)

RGt(a, b) == RLt(b, a)

RLe(a, b) == ~IsNaN(a) /\ ~IsNaN(b) /\ ~RLt(b, a)

RGe(a, b) == RLe(b, a)

RMax(a, b) == IF IsNaN(a) \/ IsNaN(b) THEN [n |-> 0, d |-> 0]
              ELSE IF RLt(a, b) THEN b ELSE a

RECURSIVE RPow(_, _)
RPow(a, k) == IF k = 0 THEN R(1) ELSE RMul(a, RPow(a, k - 1))

RECURSIVE Pow10(_)
Pow10(k) == IF k = 0 THEN 1 ELSE 10 * Pow10(k - 1)

\* rounding x to so many digits needs native integers only
FixedFits(x, digits) ==
  /\ ~IsWide(x)
  /\ MulFits(Abs(x.n), Pow10(digits) \div GCD(Pow10(digits), x.d))
  /\ MulFits(2, x.d)

\* Number.prototype.toFixed(digits): the decimal that is printed, as a
\* rational; ties round away from zero, non-finite values print as themselves
toFixed(x, digits) ==
  IF ~IsFinite(x) THEN x
  ELSE IF FixedFits(x, digits)
  THEN LET p == Pow10(digits)
           g == GCD(p, x.d)
           num == Abs(x.n) * (p \div g)
           den == x.d \div g
           whole == num \div den
           m == IF 2 * (num % den) >= den THEN whole + 1 ELSE whole
       IN  Norm(Sign(x.n) * m, p)
  ELSE Wide("WtoFixed", x, R(Pow10(digits)))

\* ------------------------------------------------------------------
\* BENCHMARKS (calculator.ts:10-37)
\* ------------------------------------------------------------------
Infinity == [n |-> 1, d |-> 0]

healthThresholds ==
  [cookbookRatio   |-> [healthy |-> R(25),  warning |-> R(100), critical |-> R(500)],
   cookbooksPerFte |-> [healthy |-> R(150), warning |-> R(75),  critical |-> R(50)],
   runListSize     |-> [healthy |-> R(15),  warning |-> R(30),  critical |-> R(50)]]

\* the table with the 1.5 step moved up to a ratio of 250
debtMultipliers_lateStep ==
  << [threshold |-> R(25),    multiplier |-> R(1)],
     [threshold |-> R(50),    multiplier |-> Q(11, 10)],
     [threshold |-> R(250),   multiplier |-> Q(5, 4)],
     [threshold |-> R(500),   multiplier |-> R(2)],
     [threshold |-> Infinity, multiplier |-> Q(5, 2)] >>

debtMultipliers ==
  << [threshold |-> R(25),    multiplier |-> R(1)],
     [threshold |-> R(50),    multiplier |-> Q(11, 10)],
     [threshold |-> R(100),   multiplier |-> Q(5, 4)],
     [threshold |-> R(250),   multiplier |-> Q(3, 2)],
     [threshold |-> R(500),   multiplier |-> R(2)],
     [threshold |-> Infinity, multiplier |-> Q(5, 2)] >>

migration ==
  [tier1Hours |-> R(4), tier2Hours |-> R(16), tier3Hours |-> R(40),
   learningCurveMonths |-> R(6), learningCurvePenalty |-> Q(1, 5)]

\* the platform table with a Terraform rate of 200 per node
alternatives_costlyTerraform ==
  [ansible    |-> [perNodeCost |-> R(75),  migrationFactor |-> R(1),     label |-> "Ansible"],
   kubernetes |-> [perNodeCost |-> R(30),  migrationFactor |-> Q(9, 5),  label |-> "Kubernetes/GitOps"],
   terraform  |-> [perNodeCost |-> R(200), migrationFactor |-> Q(6, 5),  label |-> "Terraform"],
   puppet     |-> [perNodeCost |-> R(125), migrationFactor |-> Q(7, 10), label |-> "Puppet"]]

\* the table with Kubernetes licensed below Terraform
alternatives_cheapKubernetes ==
  [ansible    |-> [perNodeCost |-> R(75),  migrationFactor |-> R(1),     label |-> "Ansible"],
   kubernetes |-> [perNodeCost |-> R(10),  migrationFactor |-> Q(9, 5),  label |-> "Kubernetes/GitOps"],
   terraform  |-> [perNodeCost |-> R(20),  migrationFactor |-> Q(6, 5),  label |-> "Terraform"],
   puppet     |-> [perNodeCost |-> R(125), migrationFactor |-> Q(7, 10), label |-> "Puppet"]]

alternatives ==
  [ansible    |-> [perNodeCost |-> R(75),  migrationFactor |-> R(1),     label |-> "Ansible"],
   kubernetes |-> [perNodeCost |-> R(30),  migrationFactor |-> Q(9, 5),  label |-> "Kubernetes/GitOps"],
   terraform  |-> [perNodeCost |-> R(20),  migrationFactor |-> Q(6, 5),  label |-> "Terraform"],
   puppet     |-> [perNodeCost |-> R(125), migrationFactor |-> Q(7, 10), label |-> "Puppet"]]

BENCHMARKS ==
  [healthThresholds |-> healthThresholds,
   debtMultipliers  |-> debtMultipliers,
   migration        |-> migration,
   alternatives     |-> alternatives]

\* Object.keys(BENCHMARKS.alternatives), in insertion order
PlatformKeys == << "ansible", "kubernetes", "terraform", "puppet" >>

\* ------------------------------------------------------------------
\* getDebtMultiplier (calculator.ts:39-46)
\* ------------------------------------------------------------------
\* the scan with an exclusive upper bound
RECURSIVE ScanDebtMultipliers_exclusive(_, _)
ScanDebtMultipliers_exclusive(cookbookRatio, i) ==
  IF i > Len(BENCHMARKS.debtMultipliers) THEN Q(5, 2)
  ELSE IF RLt(cookbookRatio, BENCHMARKS.debtMultipliers[i].threshold)
       THEN BENCHMARKS.debtMultipliers[i].multiplier
       ELSE ScanDebtMultipliers_exclusive(cookbookRatio, i + 1)

RECURSIVE ScanDebtMultipliers(_, _)
ScanDebtMultipliers(cookbookRatio, i) ==
  IF i > Len(BENCHMARKS.debtMultipliers) THEN Q(5, 2)
  ELSE IF RLe(cookbookRatio, BENCHMARKS.debtMultipliers[i].threshold)
       THEN BENCHMARKS.debtMultipliers[i].multiplier
       ELSE ScanDebtMultipliers(cookbookRatio, i + 1)

getDebtMultiplier_exclusive(cookbookRatio) == ScanDebtMultipliers_exclusive(cookbookRatio, 1)

getDebtMultiplier(cookbookRatio) == ScanDebtMultipliers(cookbookRatio, 1)

\* ------------------------------------------------------------------
\* calculateHealthMetrics (calculator.ts:48-104)
\* ------------------------------------------------------------------
totalFteOf(data) ==
  RAdd(data.team.dedicatedEngineers,
       RMul(data.team.partTimeContributors,
            RDiv(data.team.partTimeAllocationPct, R(100))))

\* the ratio without the zero-node guard
cookbookRatioOf_unguarded(data) ==
  RMul(RDiv(data.cookbooks.activeCookbooks,
            data.infrastructure.totalManagedNodes), R(1000))

\* the ratio taken over every cookbook on the servers
cookbookRatioOf_totalCookbooks(data) ==
  IF RGt(data.infrastructure.totalManagedNodes, R(0))
  THEN RMul(RDiv(data.cookbooks.totalCookbooks,
                 data.infrastructure.totalManagedNodes), R(1000))
  ELSE R(0)

cookbookRatioOf(data) ==
  IF RGt(data.infrastructure.totalManagedNodes, R(0))
  THEN RMul(RDiv(data.cookbooks.activeCookbooks,
                 data.infrastructure.totalManagedNodes), R(1000))
  ELSE R(0)

cookbooksPerFteOf(data) ==
  IF RGt(totalFteOf(data), R(0))
  THEN RDiv(data.cookbooks.activeCookbooks, totalFteOf(data))
  ELSE R(0)

\* the ratio branch with 'critical' taken from the warning threshold (100)
ratioCheck_criticalAtWarning(cookbookRatio) ==
  LET thresholds == BENCHMARKS.healthThresholds IN
  IF RGt(cookbookRatio, thresholds.cookbookRatio.warning)
  THEN [healthScore |-> "critical",
        issues |-> << [kind |-> "ratio_critical",
                       value |-> toFixed(cookbookRatio, 1),
                       target |-> thresholds.cookbookRatio.healthy] >>]
  ELSE IF RGt(cookbookRatio, thresholds.cookbookRatio.healthy)
  THEN [healthScore |-> "warning",
        issues |-> << [kind |-> "ratio_exceeds_healthy",
                       value |-> toFixed(cookbookRatio, 1),
                       target |-> thresholds.cookbookRatio.healthy] >>]
  ELSE [healthScore |-> "healthy", issues |-> << >>]

\* the ratio branch: [score, issues] after calculator.ts:78-88
ratioCheck(cookbookRatio) ==
  LET thresholds == BENCHMARKS.healthThresholds IN
  IF RGt(cookbookRatio, thresholds.cookbookRatio.critical)
  THEN [healthScore |-> "critical",
        issues |-> << [kind |-> "ratio_critical",
                       value |-> toFixed(cookbookRatio, 1),
                       target |-> thresholds.cookbookRatio.healthy] >>]
  ELSE IF RGt(cookbookRatio, thresholds.cookbookRatio.healthy)
  THEN [healthScore |-> "warning",
        issues |-> << [kind |-> "ratio_exceeds_healthy",
                       value |-> toFixed(cookbookRatio, 1),
                       target |-> thresholds.cookbookRatio.healthy] >>]
  ELSE [healthScore |-> "healthy", issues |-> << >>]

\* the FTE branch applied to the outcome of the ratio branch (calculator.ts:90-101)
fteCheck(prev, cookbooksPerFte) ==
  LET thresholds == BENCHMARKS.healthThresholds IN
  IF RGt(cookbooksPerFte, R(300))
  THEN [healthScore |-> prev.healthScore,
        issues |-> Append(prev.issues,
                          [kind |-> "fte_understaffing",
                           value |-> toFixed(cookbooksPerFte, 0),
                           target |-> R(300)])]
  ELSE IF RLt(cookbooksPerFte, thresholds.cookbooksPerFte.critical)
  THEN [healthScore |-> IF prev.healthScore = "healthy" THEN "warning"
                        ELSE prev.healthScore,
        issues |-> Append(prev.issues,
                          [kind |-> "fte_low_efficiency",
                           value |-> toFixed(cookbooksPerFte, 0),
                           target |-> thresholds.cookbooksPerFte.critical])]
  ELSE prev

calculateHealthMetrics(data) ==
  LET cookbookRatio   == cookbookRatioOf(data)
      cookbooksPerFte == cookbooksPerFteOf(data)
      verdict         == fteCheck(ratioCheck(cookbookRatio), cookbooksPerFte)
  IN  [cookbookRatio   |-> cookbookRatio,
       cookbooksPerFte |-> cookbooksPerFte,
       debtMultiplier  |-> getDebtMultiplier(cookbookRatio),
       healthScore     |-> verdict.healthScore,
       issues          |-> verdict.issues]

\* ------------------------------------------------------------------
\* calculateTCO (calculator.ts:106-169)
\* ------------------------------------------------------------------
fullyLoadedSalaryOf(data) ==
  RMul(data.team.averageSalary, data.team.benefitsMultiplier)

hourlyRateOf(data) == RDiv(fullyLoadedSalaryOf(data), R(2080))

infrastructureCostOf(data) ==
  RAdd(RMul(RMul(data.infrastructure.chefServerCount,
                 data.infrastructure.monthlyServerCost), R(12)),
       RMul(data.licensing.monthlyCicdCost, R(12)))

platformLaborCostOf(data) ==
  RMul(data.team.dedicatedEngineers, fullyLoadedSalaryOf(data))

distributedLaborCostOf(data) ==
  RMul(RMul(data.team.partTimeContributors,
            RDiv(data.team.partTimeAllocationPct, R(100))),
       fullyLoadedSalaryOf(data))

incidentCostOf(data) ==
  RMul(RMul(RMul(RMul(data.incidents.monthlyIncidents, R(12)),
                 data.incidents.averageMttrHours),
            data.incidents.engineersPerIncident),
       hourlyRateOf(data))

\* the tax taken on the whole multiplier instead of its excess over 1
technicalDebtTaxOf_wholeMultiplier(platformLaborCost, distributedLaborCost, debtMultiplier) ==
  LET baseLaborCost == RAdd(platformLaborCost, distributedLaborCost)
  IN  RMul(baseLaborCost, debtMultiplier)

\* the tax taken on the multiplier's excess over the 1.25 step
technicalDebtTaxOf_excessOverStep(platformLaborCost, distributedLaborCost, debtMultiplier) ==
  LET baseLaborCost == RAdd(platformLaborCost, distributedLaborCost)
  IN  RMul(baseLaborCost, RSub(debtMultiplier, Q(5, 4)))

technicalDebtTaxOf(platformLaborCost, distributedLaborCost, debtMultiplier) ==
  LET baseLaborCost == RAdd(platformLaborCost, distributedLaborCost)
  IN  RMul(baseLaborCost, RSub(debtMultiplier, R(1)))

\* the sum with the opportunity cost left out
sumTotalAnnualTco_noOpportunity(c) ==
  RAdd(RAdd(RAdd(RAdd(RAdd(RAdd(RAdd(
    c.licensingCost,
    c.infrastructureCost),
    c.platformLaborCost),
    c.distributedLaborCost),
    c.incidentCost),
    c.technicalDebtTax),
    c.trainingCost),
    c.contractorCost)

\* the nine-term sum of calculator.ts:144-153, over the local values
sumTotalAnnualTco(c) ==
  RAdd(RAdd(RAdd(RAdd(RAdd(RAdd(RAdd(RAdd(
    c.licensingCost,
    c.infrastructureCost),
    c.platformLaborCost),
    c.distributedLaborCost),
    c.incidentCost),
    c.technicalDebtTax),
    c.trainingCost),
    c.contractorCost),
    c.opportunityCost)

\* the line items with the debt tax charged on the incident cost as well
costLineItems_taxOnIncidents(data, healthMetrics) ==
  LET platformLaborCost    == platformLaborCostOf(data)
      distributedLaborCost == distributedLaborCostOf(data)
      incidentCost         == incidentCostOf(data)
      infrastructureCost   == infrastructureCostOf(data)
      laborCosts           == RAdd(RAdd(platformLaborCost, distributedLaborCost), incidentCost)
  IN  [licensingCost        |-> data.licensing.annualLicenseCost,
       infrastructureCost   |-> infrastructureCost,
       platformLaborCost    |-> platformLaborCost,
       distributedLaborCost |-> distributedLaborCost,
       incidentCost         |-> incidentCost,
       technicalDebtTax     |-> technicalDebtTaxOf(RAdd(platformLaborCost, incidentCost), distributedLaborCost,
                                                   healthMetrics.debtMultiplier),
       trainingCost         |-> data.licensing.annualTrainingBudget,
       contractorCost       |-> data.licensing.annualContractorSpend,
       opportunityCost      |-> RMul(laborCosts, Q(15, 100)),
       directCosts          |-> RAdd(data.licensing.annualLicenseCost, infrastructureCost),
       laborCosts           |-> laborCosts]

\* the line items and the derived values of calculator.ts:107-142
costLineItems(data, healthMetrics) ==
  LET platformLaborCost    == platformLaborCostOf(data)
      distributedLaborCost == distributedLaborCostOf(data)
      incidentCost         == incidentCostOf(data)
      infrastructureCost   == infrastructureCostOf(data)
      laborCosts           == RAdd(RAdd(platformLaborCost, distributedLaborCost), incidentCost)
  IN  [licensingCost        |-> data.licensing.annualLicenseCost,
       infrastructureCost   |-> infrastructureCost,
       platformLaborCost    |-> platformLaborCost,
       distributedLaborCost |-> distributedLaborCost,
       incidentCost         |-> incidentCost,
       technicalDebtTax     |-> technicalDebtTaxOf(platformLaborCost, distributedLaborCost,
                                                   healthMetrics.debtMultiplier),
       trainingCost         |-> data.licensing.annualTrainingBudget,
       contractorCost       |-> data.licensing.annualContractorSpend,
       opportunityCost      |-> RMul(laborCosts, Q(15, 100)),
       directCosts          |-> RAdd(data.licensing.annualLicenseCost, infrastructureCost),
       laborCosts           |-> laborCosts]

calculateTCO(data, healthMetrics) ==
  Const(costLineItems(data, healthMetrics), LAMBDA c :
    [licensingCost        |-> c.licensingCost,
     infrastructureCost   |-> c.infrastructureCost,
     platformLaborCost    |-> c.platformLaborCost,
     distributedLaborCost |-> c.distributedLaborCost,
     incidentCost         |-> c.incidentCost,
     technicalDebtTax     |-> c.technicalDebtTax,
     trainingCost         |-> c.trainingCost,
     contractorCost       |-> c.contractorCost,
     opportunityCost      |-> c.opportunityCost,
     directCosts          |-> c.directCosts,
     laborCosts           |-> c.laborCosts,
     totalAnnualTco       |-> sumTotalAnnualTco(c)])

\* ------------------------------------------------------------------
\* calculateMigrationCost (calculator.ts:171-198)
\* ------------------------------------------------------------------
\* the migration cost without the tooling setup
calculateMigrationCost_noTooling(data, platform) ==
  LET migrationConfig == BENCHMARKS.migration
      platformConfig  == BENCHMARKS.alternatives[platform]
      totalHours ==
        RMul(RAdd(RAdd(RMul(data.cookbooks.tier1Simple, migrationConfig.tier1Hours),
                       RMul(data.cookbooks.tier2Standard, migrationConfig.tier2Hours)),
                  RMul(data.cookbooks.tier3Complex, migrationConfig.tier3Hours)),
             platformConfig.migrationFactor)
      hourlyRate   == RDiv(RMul(data.team.averageSalary, data.team.benefitsMultiplier), R(2080))
      laborCost    == RMul(totalHours, hourlyRate)
      trainingCost == RMul(RMul(data.team.dedicatedEngineers, R(80)), hourlyRate)
      learningCost ==
        RMul(RMul(data.team.dedicatedEngineers,
                  RDiv(RMul(data.team.averageSalary, data.team.benefitsMultiplier), R(2))),
             migrationConfig.learningCurvePenalty)
      toolingCost  == RMul(laborCost, Q(1, 10))
  IN  RAdd(RAdd(laborCost, trainingCost), learningCost)

calculateMigrationCost(data, platform) ==
  LET migrationConfig == BENCHMARKS.migration
      platformConfig  == BENCHMARKS.alternatives[platform]
      totalHours ==
        RMul(RAdd(RAdd(RMul(data.cookbooks.tier1Simple, migrationConfig.tier1Hours),
                       RMul(data.cookbooks.tier2Standard, migrationConfig.tier2Hours)),
                  RMul(data.cookbooks.tier3Complex, migrationConfig.tier3Hours)),
             platformConfig.migrationFactor)
      hourlyRate   == RDiv(RMul(data.team.averageSalary, data.team.benefitsMultiplier), R(2080))
      laborCost    == RMul(totalHours, hourlyRate)
      trainingCost == RMul(RMul(data.team.dedicatedEngineers, R(80)), hourlyRate)
      learningCost ==
        RMul(RMul(data.team.dedicatedEngineers,
                  RDiv(RMul(data.team.averageSalary, data.team.benefitsMultiplier), R(2))),
             migrationConfig.learningCurvePenalty)
      toolingCost  == RMul(laborCost, Q(1, 10))
  IN  RAdd(RAdd(RAdd(laborCost, trainingCost), learningCost), toolingCost)

\* ------------------------------------------------------------------
\* calculateScenario (calculator.ts:200-262)
\* ------------------------------------------------------------------
null == [null |-> TRUE]

discountRateDefault == Q(1, 10)

\* the breakeven with the guard `>= 0` instead of `> 0`
breakEvenMonthsOf_guardGe(migrationCost, annualSavings) ==
  IF RGe(annualSavings, R(0))
  THEN RMul(RDiv(migrationCost, annualSavings), R(12))
  ELSE null

\* calculator.ts:232-233
breakEvenMonthsOf(migrationCost, annualSavings) ==
  IF RGt(annualSavings, R(0))
  THEN RMul(RDiv(migrationCost, annualSavings), R(12))
  ELSE null

\* the savings measured against the 3.15 x TCO growth baseline of the charts
savingsPercentOf_growthBaseline(currentTco, threeYearTotal) ==
  LET current3Year == RMul(currentTco, Q(315, 100))
  IN  RMul(RDiv(RSub(current3Year, threeYearTotal), current3Year), R(100))

\* calculator.ts:245-246
savingsPercentOf(currentTco, threeYearTotal) ==
  LET current3Year == RMul(currentTco, R(3))
  IN  RMul(RDiv(RSub(current3Year, threeYearTotal), current3Year), R(100))

riskScoreOf(platform) ==
  IF platform = "kubernetes" THEN "high"
  ELSE IF platform = "puppet" THEN "low" ELSE "medium"

\* the yearly costs with year 1 charged the current labor without the 20% overlap
scenarioCosts_year1FlatLabor(data, tco, platform) ==
  LET platformConfig == BENCHMARKS.alternatives[platform]
      newLicenseCost == RMul(data.infrastructure.totalManagedNodes, platformConfig.perNodeCost)
      laborReduction == Q(3, 10)
      newLaborCost   == RMul(tco.laborCosts, RSub(R(1), laborReduction))
      newInfraCost   == RMul(tco.infrastructureCost, Q(7, 10))
      migrationCost  == calculateMigrationCost(data, platform)
  IN  [migrationCost |-> migrationCost,
       year1Cost |->
         RAdd(RAdd(RAdd(RAdd(migrationCost,
                             RMul(newLicenseCost, Q(1, 2))),
                        RMul(tco.licensingCost, Q(1, 2))),
                   tco.laborCosts),
              newInfraCost),
       year2Cost |->
         RAdd(RAdd(RAdd(newLicenseCost, RMul(newLaborCost, Q(11, 10))),
                   newInfraCost),
              RMul(tco.trainingCost, Q(1, 2))),
       year3Cost |->
         RAdd(RAdd(newLicenseCost, newLaborCost), RMul(newInfraCost, Q(9, 10)))]

\* the migration cost and the three yearly costs (calculator.ts:207-229)
scenarioCosts(data, tco, platform) ==
  LET platformConfig == BENCHMARKS.alternatives[platform]
      newLicenseCost == RMul(data.infrastructure.totalManagedNodes, platformConfig.perNodeCost)
      laborReduction == Q(3, 10)
      newLaborCost   == RMul(tco.laborCosts, RSub(R(1), laborReduction))
      newInfraCost   == RMul(tco.infrastructureCost, Q(7, 10))
      migrationCost  == calculateMigrationCost(data, platform)
  IN  [migrationCost |-> migrationCost,
       year1Cost |->
         RAdd(RAdd(RAdd(RAdd(migrationCost,
                             RMul(newLicenseCost, Q(1, 2))),
                        RMul(tco.licensingCost, Q(1, 2))),
                   RMul(tco.laborCosts, Q(12, 10))),
              newInfraCost),
       year2Cost |->
         RAdd(RAdd(RAdd(newLicenseCost, RMul(newLaborCost, Q(11, 10))),
                   newInfraCost),
              RMul(tco.trainingCost, Q(1, 2))),
       year3Cost |->
         RAdd(RAdd(newLicenseCost, newLaborCost), RMul(newInfraCost, Q(9, 10)))]

\* the discounted savings with the migration cost subtracted once more
npv3YearOf_migrationTwice(currentTco, y, discountRate) ==
  LET savingsY1 == RDiv(RSub(currentTco, y.year1Cost), RAdd(R(1), discountRate))
      savingsY2 == RDiv(RSub(currentTco, y.year2Cost), RPow(RAdd(R(1), discountRate), 2))
      savingsY3 == RDiv(RSub(currentTco, y.year3Cost), RPow(RAdd(R(1), discountRate), 3))
  IN  RSub(RAdd(RAdd(savingsY1, savingsY2), savingsY3), y.migrationCost)

\* the discounted savings of calculator.ts:236-239
npv3YearOf(currentTco, y, discountRate) ==
  LET savingsY1 == RDiv(RSub(currentTco, y.year1Cost), RAdd(R(1), discountRate))
      savingsY2 == RDiv(RSub(currentTco, y.year2Cost), RPow(RAdd(R(1), discountRate), 2))
      savingsY3 == RDiv(RSub(currentTco, y.year3Cost), RPow(RAdd(R(1), discountRate), 3))
  IN  RAdd(RAdd(savingsY1, savingsY2), savingsY3)

calculateScenario(data, tco, platform, discountRate) ==
  Const(scenarioCosts(data, tco, platform), LAMBDA y :
  Const(RAdd(RAdd(y.year1Cost, y.year2Cost), y.year3Cost), LAMBDA threeYearTotal :
  Const(RSub(tco.totalAnnualTco, y.year3Cost), LAMBDA annualSavings :
    [name            |-> << "Migration to", BENCHMARKS.alternatives[platform].label >>,
     platform        |-> platform,
     migrationCost   |-> y.migrationCost,
     year1Cost       |-> y.year1Cost,
     year2Cost       |-> y.year2Cost,
     year3Cost       |-> y.year3Cost,
     threeYearTotal  |-> threeYearTotal,
     breakEvenMonths |-> breakEvenMonthsOf(y.migrationCost, annualSavings),
     npv3Year        |-> npv3YearOf(tco.totalAnnualTco, y, discountRate),
     riskScore       |-> riskScoreOf(platform),
     annualSavings   |-> annualSavings,
     savingsPercent  |-> savingsPercentOf(tco.totalAnnualTco, threeYearTotal)])))

\* ------------------------------------------------------------------
\* generateAnalysisReport (calculator.ts:264-324)
\* ------------------------------------------------------------------
\* Array.prototype.map over Object.keys(BENCHMARKS.alternatives)
mapScenarios(data, costBreakdown) ==
  [i \in 1..Len(PlatformKeys) |->
     calculateScenario(data, costBreakdown, PlatformKeys[i], discountRateDefault)]

\* the comparator (a, b) => b.npv3Year - a.npv3Year
compareNpv(a, b) == RSub(b.npv3Year, a.npv3Year)

\* insert x behind every element it does not have to precede (stable)
RECURSIVE insertSorted(_, _)
insertSorted(sorted, x) ==
  IF sorted = << >> THEN << x >>
  ELSE IF RGt(compareNpv(Head(sorted), x), R(0))
       THEN << x >> \o sorted
       ELSE << Head(sorted) >> \o insertSorted(Tail(sorted), x)

\* the list left in the order of the platform table
sortScenarios_unsorted(list) == list

\* Array.prototype.sort with that comparator: a stable sort
RECURSIVE sortScenarios(_)
sortScenarios(list) ==
  IF list = << >> THEN << >>
  ELSE insertSorted(sortScenarios(SubSeq(list, 1, Len(list) - 1)), list[Len(list)])

\* the per-unit costs without the Math.max(1, ...) clamp
perUnitCostsOf_unclamped(data, costBreakdown) ==
  [perNode     |-> RDiv(costBreakdown.totalAnnualTco, data.infrastructure.totalManagedNodes),
   perCookbook |-> RDiv(costBreakdown.totalAnnualTco, data.cookbooks.activeCookbooks),
   perFte      |-> RDiv(costBreakdown.totalAnnualTco, data.team.dedicatedEngineers)]

perUnitCostsOf(data, costBreakdown) ==
  [perNode     |-> RDiv(costBreakdown.totalAnnualTco,
                        RMax(R(1), data.infrastructure.totalManagedNodes)),
   perCookbook |-> RDiv(costBreakdown.totalAnnualTco,
                        RMax(R(1), data.cookbooks.activeCookbooks)),
   perFte      |-> RDiv(costBreakdown.totalAnnualTco,
                        RMax(R(1), data.team.dedicatedEngineers))]

\* `x?.toFixed(0) || 'N/A'`: null gives 'N/A', any number its digits
breakEvenText(breakEvenMonths) ==
  IF breakEvenMonths = null THEN [text |-> "N/A"] ELSE toFixed(breakEvenMonths, 0)

\* the four checks with the reliability check made first
recommendationsOf_reliabilityFirst(data, healthMetrics, costBreakdown, scenarios) ==
  LET r1 == IF RGt(healthMetrics.cookbookRatio, R(100))
            THEN << [kind |-> "consolidate",
                     ratio |-> toFixed(healthMetrics.cookbookRatio, 0)] >>
            ELSE << >>
      r2 == IF RGe(healthMetrics.debtMultiplier, Q(3, 2))
            THEN << [kind |-> "debt_tax",
                     millions |-> toFixed(RDiv(costBreakdown.technicalDebtTax, R(1000000)), 1)] >>
            ELSE << >>
      r3 == IF Len(scenarios) > 0 /\ RGt(scenarios[1].npv3Year, R(0))
            THEN << [kind |-> "migrate",
                     name |-> scenarios[1].name,
                     millions |-> toFixed(RDiv(scenarios[1].npv3Year, R(1000000)), 1),
                     breakeven |-> breakEvenText(scenarios[1].breakEvenMonths)] >>
            ELSE << >>
      r4 == IF RGt(data.incidents.monthlyIncidents, R(20))
            THEN << [kind |-> "reliability",
                     incidents |-> data.incidents.monthlyIncidents] >>
            ELSE << >>
  IN  r4 \o r1 \o r2 \o r3

recommendationsOf(data, healthMetrics, costBreakdown, scenarios) ==
  LET r1 == IF RGt(healthMetrics.cookbookRatio, R(100))
            THEN << [kind |-> "consolidate",
                     ratio |-> toFixed(healthMetrics.cookbookRatio, 0)] >>
            ELSE << >>
      r2 == IF RGe(healthMetrics.debtMultiplier, Q(3, 2))
            THEN << [kind |-> "debt_tax",
                     millions |-> toFixed(RDiv(costBreakdown.technicalDebtTax, R(1000000)), 1)] >>
            ELSE << >>
      r3 == IF Len(scenarios) > 0 /\ RGt(scenarios[1].npv3Year, R(0))
            THEN << [kind |-> "migrate",
                     name |-> scenarios[1].name,
                     millions |-> toFixed(RDiv(scenarios[1].npv3Year, R(1000000)), 1),
                     breakeven |-> breakEvenText(scenarios[1].breakEvenMonths)] >>
            ELSE << >>
      r4 == IF RGt(data.incidents.monthlyIncidents, R(20))
            THEN << [kind |-> "reliability",
                     incidents |-> data.incidents.monthlyIncidents] >>
            ELSE << >>
  IN  r1 \o r2 \o r3 \o r4

\* the returned object (calculator.ts:309-323)
assembleReport(data, healthMetrics, costBreakdown, perUnitCosts, scenarios) ==
  [summary |-> [totalNodes      |-> data.infrastructure.totalManagedNodes,
                activeCookbooks |-> data.cookbooks.activeCookbooks,
                annualTco       |-> costBreakdown.totalAnnualTco,
                perNodeCost     |-> perUnitCosts.perNode,
                perCookbookCost |-> perUnitCosts.perCookbook,
                healthScore     |-> healthMetrics.healthScore],
   healthMetrics   |-> healthMetrics,
   costBreakdown   |-> costBreakdown,
   perUnitCosts    |-> perUnitCosts,
   scenarios       |-> scenarios,
   recommendations |-> recommendationsOf(data, healthMetrics, costBreakdown, scenarios)]

generateAnalysisReport(data) ==
  Const(calculateHealthMetrics(data), LAMBDA healthMetrics :
  Const(calculateTCO(data, healthMetrics), LAMBDA costBreakdown :
  Const(perUnitCostsOf(data, costBreakdown), LAMBDA perUnitCosts :
  Const(sortScenarios(mapScenarios(data, costBreakdown)), LAMBDA scenarios :
    assembleReport(data, healthMetrics, costBreakdown, perUnitCosts, scenarios)))))

\* ------------------------------------------------------------------
\* Input snapshots (OrganizationData, calculator.ts:350-398)
\* ------------------------------------------------------------------
MaxActive == 4

MaxEngineers == 2

\* active cookbooks: a dense range of multiples of 25 and the far table steps
ActiveValues == { 25 * k : k \in 0..MaxActive } \cup { 250, 500, 525 }

NodeValues == { 0, 960, 1000, 2000 }

TierValues == { << 0, 0, 0 >>, << 6, 3, 1 >> }

\* << monthlyIncidents, averageMttrHours, engineersPerIncident >>
IncidentValues == { << 0, 0, R(0) >>, << 25, 6, Q(5, 2) >> }

LicenseValues == { 0, 110000 }

\* << chefServerCount, monthlyServerCost, monthlyCicdCost, training, contractor >>
OtherCostValues == { << 0, 0, 0, 0, 0 >>, << 2, 400, 150, 1500, 5000 >> }

Snapshot(nodes, active, tiers, ded, pt, alloc, salary, benefits, inc, lic, other) ==
  [infrastructure |-> [totalManagedNodes      |-> R(nodes),
                       productionNodes        |-> R(nodes),
                       stagingNodes           |-> R(0),
                       developmentNodes       |-> R(0),
                       chefServerCount        |-> R(other[1]),
                       monthlyServerCost      |-> R(other[2]),
                       chefRunIntervalMinutes |-> R(30)],
   cookbooks      |-> [totalCookbooks      |-> R(active),
                       uniqueCookbookNames |-> R(active),
                       activeCookbooks     |-> R(active),
                       tier1Simple         |-> R(tiers[1]),
                       tier2Standard       |-> R(tiers[2]),
                       tier3Complex        |-> R(tiers[3]),
                       avgCookbooksPerNode |-> R(8)],
   team           |-> [dedicatedEngineers    |-> R(ded),
                       partTimeContributors  |-> R(pt),
                       partTimeAllocationPct |-> R(alloc),
                       averageSalary         |-> R(salary),
                       benefitsMultiplier    |-> benefits],
   incidents      |-> [monthlyIncidents     |-> R(inc[1]),
                       averageMttrHours     |-> R(inc[2]),
                       engineersPerIncident |-> inc[3]],
   licensing      |-> [annualLicenseCost     |-> R(lic),
                       negotiatedRatePerNode |-> R(55),
                       annualTrainingBudget  |-> R(other[4]),
                       monthlyCicdCost       |-> R(other[3]),
                       annualContractorSpend |-> R(other[5])]]

\* the snapshot in which every field is 0
ZeroSnapshot ==
  Snapshot(0, 0, << 0, 0, 0 >>, 0, 0, 0, 0, R(0), << 0, 0, R(0) >>, 0, << 0, 0, 0, 0, 0 >>)

\* the 200,000-node sample snapshot (data/sampleData.ts)
sampleData ==
  [infrastructure |-> [totalManagedNodes      |-> R(200000),
                       productionNodes        |-> R(150000),
                       stagingNodes           |-> R(30000),
                       developmentNodes       |-> R(20000),
                       chefServerCount        |-> R(12),
                       monthlyServerCost      |-> R(4000),
                       chefRunIntervalMinutes |-> R(30)],
   cookbooks      |-> [totalCookbooks      |-> R(90000),
                       uniqueCookbookNames |-> R(15000),
                       activeCookbooks     |-> R(12000),
                       tier1Simple         |-> R(7200),
                       tier2Standard       |-> R(3600),
                       tier3Complex        |-> R(1200),
                       avgCookbooksPerNode |-> R(8)],
   team           |-> [dedicatedEngineers    |-> R(45),
                       partTimeContributors  |-> R(120),
                       partTimeAllocationPct |-> R(20),
                       averageSalary         |-> R(165000),
                       benefitsMultiplier    |-> Q(14, 10)],
   incidents      |-> [monthlyIncidents     |-> R(25),
                       averageMttrHours     |-> R(6),
                       engineersPerIncident |-> Q(25, 10)],
   licensing      |-> [annualLicenseCost     |-> R(11000000),
                       negotiatedRatePerNode |-> R(55),
                       annualTrainingBudget  |-> R(150000),
                       monthlyCicdCost       |-> R(15000),
                       annualContractorSpend |-> R(500000)]]

Snapshots ==
  { Snapshot(nodes, active, tiers, ded, pt, 25, 20800, Q(5, 4), inc, lic, other) :
      nodes \in NodeValues, active \in ActiveValues, tiers \in TierValues,
      ded \in 0..MaxEngineers, pt \in { 0, 1 },
      inc \in IncidentValues, lic \in LicenseValues, other \in OtherCostValues }
  \cup { ZeroSnapshot, sampleData }

\* ------------------------------------------------------------------
\* State: one snapshot and the results of the exported functions applied to
\* it; for the web UI, the App and Scenarios component state, the rendered
\* page, and the number of manual field edits since the data was last loaded
\* ------------------------------------------------------------------
VARIABLES data, pc, healthMetrics, costBreakdown, scenario, report,
          activeTab, selectedPlatform, page, edits

vars == << data, pc, healthMetrics, costBreakdown, scenario, report,
           activeTab, selectedPlatform, page, edits >>

uiVars == << activeTab, selectedPlatform, page, edits >>

engineVars == << pc, healthMetrics, costBreakdown, scenario >>

none == [none |-> TRUE]

Init ==
  /\ data \in Snapshots
  /\ pc = "start"
  /\ healthMetrics = none
  /\ costBreakdown = none
  /\ scenario = none
  /\ report = none
  /\ activeTab = none
  /\ selectedPlatform = none
  /\ page = none
  /\ edits = 0

\* calculateHealthMetrics(data)
CalculateHealthMetrics ==
  /\ pc = "start"
  /\ healthMetrics' = calculateHealthMetrics(data)
  /\ pc' = "health"
  /\ UNCHANGED << data, costBreakdown, scenario, report >>
  /\ UNCHANGED uiVars

\* calculateTCO(data, healthMetrics)
CalculateTCO ==
  /\ pc = "health"
  /\ costBreakdown' = calculateTCO(data, healthMetrics)
  /\ pc' = "tco"
  /\ UNCHANGED << data, healthMetrics, scenario, report >>
  /\ UNCHANGED uiVars

\* calculateScenario(data, costBreakdown, platform) with the default discount rate
CalculateScenario ==
  /\ pc = "tco"
  /\ \E i \in 1..Len(PlatformKeys) :
       scenario' = calculateScenario(data, costBreakdown, PlatformKeys[i], discountRateDefault)
  /\ pc' = "scenario"
  /\ UNCHANGED << data, healthMetrics, costBreakdown, report >>
  /\ UNCHANGED uiVars

\* generateAnalysisReport(data)
GenerateAnalysisReport ==
  /\ pc = "start"
  /\ report' = generateAnalysisReport(data)
  /\ pc' = "report"
  /\ UNCHANGED << data, healthMetrics, costBreakdown, scenario >>
  /\ UNCHANGED uiVars

Next ==
  \/ CalculateHealthMetrics
  \/ CalculateTCO
  \/ CalculateScenario
  \/ GenerateAnalysisReport

Spec == Init /\ [][Next]_vars

\* ------------------------------------------------------------------
\* Results visible in a state
\* ------------------------------------------------------------------
\* health metrics returned so far, with the snapshot they were computed from
HealthSeen ==
  IF pc \in { "health", "tco", "scenario" } THEN { healthMetrics }
  ELSE IF pc = "report" THEN { report.healthMetrics }
  ELSE { }

\* cost breakdowns returned so far, each with the health metrics it was given
CostsSeen ==
  IF pc \in { "tco", "scenario" } THEN { [hm |-> healthMetrics, tco |-> costBreakdown] }
  ELSE IF pc = "report" THEN { [hm |-> report.healthMetrics, tco |-> report.costBreakdown] }
  ELSE { }

\* scenario results returned so far, each with the cost breakdown it was given
ScenariosSeen ==
  IF pc = "scenario" THEN { [tco |-> costBreakdown, s |-> scenario] }
  ELSE IF pc = "report"
       THEN { [tco |-> report.costBreakdown, s |-> report.scenarios[i]] :
                i \in 1..Len(report.scenarios) }
  ELSE { }

C2_DebtMultiplierSteps ==
  \A h \in HealthSeen :
    LET r == h.cookbookRatio
        m == h.debtMultiplier
    IN  /\ RLe(r, R(25)) => m = R(1)
        /\ (RGt(r, R(25))  /\ RLe(r, R(50)))  => m = Q(11, 10)
        /\ (RGt(r, R(50))  /\ RLe(r, R(100))) => m = Q(5, 4)
        /\ (RGt(r, R(100)) /\ RLe(r, R(250))) => m = Q(3, 2)
        /\ (RGt(r, R(250)) /\ RLe(r, R(500))) => m = R(2)
        /\ RGt(r, R(500)) => m = Q(5, 2)

\* the boundary ratio 500 has been looked up and gave the lower multiplier 2.0
C2_Witness ==
  \E h \in HealthSeen : h.cookbookRatio = R(500) /\ h.debtMultiplier = R(2)

\* ------------------------------------------------------------------
\* C3
\* ------------------------------------------------------------------
\* C3: every health result whose cookbook ratio exceeds 100 has healthScore
\* 'critical', whatever its cookbooks-per-FTE value is.
C3_CriticalAbove100 ==
  \A h \in HealthSeen :
    RGt(h.cookbookRatio, R(100)) => h.healthScore = "critical"

\* ------------------------------------------------------------------
\* C4
\* ------------------------------------------------------------------
\* C4: every health result whose cookbook ratio exceeds 25 or whose
\* cookbooks-per-FTE is below 150 has a healthScore other than 'healthy', and
\* each of the two breaches contributes its own entry to issues.
C4_WarningOnBreach ==
  \A h \in HealthSeen :
    LET ratioBreach == RGt(h.cookbookRatio, R(25))
        fteBreach   == RLt(h.cookbooksPerFte, R(150))
    IN  /\ (ratioBreach \/ fteBreach) => h.healthScore # "healthy"
        /\ Len(h.issues) >= (IF ratioBreach THEN 1 ELSE 0) + (IF fteBreach THEN 1 ELSE 0)

\* ------------------------------------------------------------------
\* C5
\* ------------------------------------------------------------------
\* C5: the scenarios of every report are exactly one scenario for each of
\* ansible, kubernetes, terraform and puppet, in an order in which npv3Year
\* never increases from one element to the next.
C5_ScenariosSortedByNpv ==
  pc = "report" =>
    /\ Len(report.scenarios) = 4
    /\ \A k \in { "ansible", "kubernetes", "terraform", "puppet" } :
         Cardinality({ i \in 1..Len(report.scenarios) :
                         report.scenarios[i].platform = k }) = 1
    /\ \A i \in 1..(Len(report.scenarios) - 1) :
         RGe(report.scenarios[i].npv3Year, report.scenarios[i + 1].npv3Year)

\* a report whose scenario order differs from the order of the platform
\* table, with strictly different NPVs at its two ends
C5_Witness ==
  /\ pc = "report"
  /\ report.scenarios[1].platform # "ansible"
  /\ report.scenarios[4].platform # "puppet"
  /\ RGt(report.scenarios[1].npv3Year, report.scenarios[4].npv3Year)

\* ------------------------------------------------------------------
\* C6
\* ------------------------------------------------------------------
\* C6 as stated: breakEvenMonths is null whenever year3Cost >= totalAnnualTco,
\* and otherwise a positive finite number equal to
\* migrationCost / (totalAnnualTco - year3Cost) * 12.
C6_BreakEvenPositive ==
  \A x \in ScenariosSeen :
    IF RGe(x.s.year3Cost, x.tco.totalAnnualTco)
    THEN x.s.breakEvenMonths = null
    ELSE /\ x.s.breakEvenMonths # null
         /\ IsFinite(x.s.breakEvenMonths)
         /\ RGt(x.s.breakEvenMonths, R(0))
         /\ x.s.breakEvenMonths =
              RMul(RDiv(x.s.migrationCost,
                        RSub(x.tco.totalAnnualTco, x.s.year3Cost)), R(12))

\* C6 as amended: breakEvenMonths is null whenever year3Cost >= totalAnnualTco,
\* and otherwise a finite number >= 0 equal to
\* migrationCost / (totalAnnualTco - year3Cost) * 12, which is 0 exactly when
\* the migration cost is 0.
C6_BreakEvenNonNegative ==
  \A x \in ScenariosSeen :
    IF RGe(x.s.year3Cost, x.tco.totalAnnualTco)
    THEN x.s.breakEvenMonths = null
    ELSE /\ x.s.breakEvenMonths # null
         /\ IsFinite(x.s.breakEvenMonths)
         /\ RGe(x.s.breakEvenMonths, R(0))
         /\ x.s.breakEvenMonths =
              RMul(RDiv(x.s.migrationCost,
                        RSub(x.tco.totalAnnualTco, x.s.year3Cost)), R(12))
         /\ (x.s.breakEvenMonths = R(0)) <=> (x.s.migrationCost = R(0))

\* a scenario that pays back at steady state although its migration is free
C6_Witness ==
  \E x \in ScenariosSeen :
    /\ RLt(x.s.year3Cost, x.tco.totalAnnualTco)
    /\ x.s.migrationCost = R(0)
    /\ x.s.breakEvenMonths = R(0)

\* ------------------------------------------------------------------
\* C7
\* ------------------------------------------------------------------
\* C7: no number of a report is the outcome of a division by zero: the
\* ratios, the per-unit costs and every scenario's savingsPercent are finite.
C7_NoDivisionByZero ==
  pc = "report" =>
    /\ IsFinite(report.healthMetrics.cookbookRatio)
    /\ IsFinite(report.healthMetrics.cookbooksPerFte)
    /\ IsFinite(report.perUnitCosts.perNode)
    /\ IsFinite(report.perUnitCosts.perCookbook)
    /\ IsFinite(report.perUnitCosts.perFte)
    /\ \A i \in 1..Len(report.scenarios) :
         IsFinite(report.scenarios[i].savingsPercent)

\* ------------------------------------------------------------------
\* C9
\* ------------------------------------------------------------------
\* C9: with totalManagedNodes = 0 the cookbook ratio is 0, the debt multiplier
\* is 1.0 and the healthScore is decided by the FTE-efficiency check alone
\* ('warning' when it fires, 'healthy' otherwise); with a total FTE of 0 the
\* cookbooks-per-FTE value is 0.
C9_ZeroGuards ==
  \A h \in HealthSeen :
    /\ data.infrastructure.totalManagedNodes = R(0) =>
         /\ h.cookbookRatio = R(0)
         /\ h.debtMultiplier = R(1)
         /\ h.healthScore = (IF RLt(h.cookbooksPerFte, R(50)) THEN "warning" ELSE "healthy")
    /\ ( /\ data.team.dedicatedEngineers = R(0)
         /\ \/ data.team.partTimeContributors = R(0)
            \/ data.team.partTimeAllocationPct = R(0) ) =>
         h.cookbooksPerFte = R(0)

\* health metrics of a snapshot with cookbooks but neither nodes nor staff
C9_Witness ==
  \E h \in HealthSeen :
    /\ data.infrastructure.totalManagedNodes = R(0)
    /\ data.team.dedicatedEngineers = R(0)
    /\ data.team.partTimeContributors = R(0)
    /\ RGt(data.cookbooks.activeCookbooks, R(0))
    /\ h.cookbookRatio = R(0)
    /\ h.cookbooksPerFte = R(0)

\* ------------------------------------------------------------------
\* C10
\* ------------------------------------------------------------------
\* C10 as stated: technicalDebtTax is zero if and only if the debt multiplier
\* is 1.0, and equals (platformLaborCost + distributedLaborCost) * (multiplier - 1).
C10_TaxZeroIffMultiplierOne ==
  \A c \in CostsSeen :
    /\ (c.tco.technicalDebtTax = R(0)) <=> (c.hm.debtMultiplier = R(1))
    /\ c.tco.technicalDebtTax =
         RMul(RAdd(c.tco.platformLaborCost, c.tco.distributedLaborCost),
              RSub(c.hm.debtMultiplier, R(1)))

\* C10 as amended: technicalDebtTax equals
\* (platformLaborCost + distributedLaborCost) * (multiplier - 1); it is zero if
\* and only if the multiplier is 1.0 or platform and distributed labor sum to 0.
C10_TaxLinearInExcess ==
  \A c \in CostsSeen :
    /\ (c.tco.technicalDebtTax = R(0)) <=>
         \/ c.hm.debtMultiplier = R(1)
         \/ RAdd(c.tco.platformLaborCost, c.tco.distributedLaborCost) = R(0)
    /\ c.tco.technicalDebtTax =
         RMul(RAdd(c.tco.platformLaborCost, c.tco.distributedLaborCost),
              RSub(c.hm.debtMultiplier, R(1)))

\* a breakdown with a multiplier above 1.0 and no platform or distributed
\* labor, hence no tax, and one with labor and a positive tax
C10_Witness ==
  \E c \in CostsSeen :
    /\ RGt(c.hm.debtMultiplier, R(1))
    /\ RAdd(c.tco.platformLaborCost, c.tco.distributedLaborCost) = R(0)
    /\ c.tco.technicalDebtTax = R(0)

\* ------------------------------------------------------------------
\* C11
\* ------------------------------------------------------------------
\* C11: the totalAnnualTco returned by calculateTCO equals
\* Direct Costs + (Labor Costs * Debt Multiplier) + Opportunity Cost, where
\* Direct Costs = licensing + infrastructure, Labor Costs = platform team +
\* distributed effort + incident response and Opportunity Cost = 15% of
\* Labor Costs.
C11_DocumentedCostModel ==
  \A c \in CostsSeen :
    /\ c.tco.directCosts = RAdd(c.tco.licensingCost, c.tco.infrastructureCost)
    /\ c.tco.laborCosts =
         RAdd(RAdd(c.tco.platformLaborCost, c.tco.distributedLaborCost), c.tco.incidentCost)
    /\ c.tco.opportunityCost = RMul(c.tco.laborCosts, Q(15, 100))
    /\ c.tco.totalAnnualTco =
         RAdd(RAdd(c.tco.directCosts, RMul(c.tco.laborCosts, c.hm.debtMultiplier)),
              c.tco.opportunityCost)

\* ------------------------------------------------------------------
\* C12
\* ------------------------------------------------------------------
\* C12: the report generated for the 200,000-node sample snapshot has
\* cookbook ratio 60.0, debt multiplier 1.25, a total annual TCO between
\* 25,000,000 and 35,000,000 and a cost per node that prints as 147.
C12_SampleReference ==
  (pc = "report" /\ data = sampleData) =>
    /\ report.healthMetrics.cookbookRatio = R(60)
    /\ report.healthMetrics.debtMultiplier = Q(5, 4)
    /\ RGe(report.costBreakdown.totalAnnualTco, R(25000000))
    /\ RLe(report.costBreakdown.totalAnnualTco, R(35000000))
    /\ toFixed(report.perUnitCosts.perNode, 0) = R(147)

\* ------------------------------------------------------------------
\* C13
\* ------------------------------------------------------------------
\* C13: for the 200,000-node sample snapshot the Terraform scenario has a
\* positive npv3Year and a breakEvenMonths below 24, whether it is computed
\* alone or inside the report, and in the report Terraform is the first
\* scenario and the one the migration recommendation names.
C13_SampleTerraform ==
  data = sampleData =>
    /\ \A x \in ScenariosSeen :
         x.s.platform = "terraform" =>
           /\ RGt(x.s.npv3Year, R(0))
           /\ x.s.breakEvenMonths # null
           /\ RLt(x.s.breakEvenMonths, R(24))
    /\ pc = "report" =>
         /\ report.scenarios[1].platform = "terraform"
         /\ \E i \in 1..Len(report.recommendations) :
              /\ report.recommendations[i].kind = "migrate"
              /\ report.recommendations[i].name = << "Migration to", "Terraform" >>

\* the report of the sample snapshot, led by a Terraform scenario whose
\* breakeven lies between 13 and 14 months
C13_Witness ==
  /\ data = sampleData
  /\ pc = "report"
  /\ report.scenarios[1].platform = "terraform"
  /\ RGt(report.scenarios[1].breakEvenMonths, R(13))
  /\ RLt(report.scenarios[1].breakEvenMonths, R(14))
  /\ RGt(report.scenarios[1].npv3Year, R(17000000))

C15_PerUnitByTotalFte ==
  pc = "report" =>
    LET total == report.costBreakdown.totalAnnualTco
        u     == report.perUnitCosts
    IN  /\ u.perNode = RDiv(total, RMax(R(1), data.infrastructure.totalManagedNodes))
        /\ u.perCookbook = RDiv(total, RMax(R(1), data.cookbooks.activeCookbooks))
        /\ u.perFte = RDiv(total, RMax(R(1), totalFteOf(data)))
        /\ data.infrastructure.totalManagedNodes = R(0) => u.perNode = total
        /\ data.cookbooks.activeCookbooks = R(0) => u.perCookbook = total
        /\ totalFteOf(data) = R(0) => u.perFte = total

\* C15 as amended: perNode divides by totalManagedNodes, perCookbook by
\* activeCookbooks and perFte by dedicatedEngineers alone (part-time
\* contributors are not counted), each clamped to a minimum of 1; a count of
\* 0 gives totalAnnualTco itself, and every per-unit cost is finite when the
\* total is.
C15_PerUnitByDedicated ==
  pc = "report" =>
    LET total == report.costBreakdown.totalAnnualTco
        u     == report.perUnitCosts
    IN  /\ u.perNode = RDiv(total, RMax(R(1), data.infrastructure.totalManagedNodes))
        /\ u.perCookbook = RDiv(total, RMax(R(1), data.cookbooks.activeCookbooks))
        /\ u.perFte = RDiv(total, RMax(R(1), data.team.dedicatedEngineers))
        /\ data.infrastructure.totalManagedNodes = R(0) => u.perNode = total
        /\ data.cookbooks.activeCookbooks = R(0) => u.perCookbook = total
        /\ data.team.dedicatedEngineers = R(0) => u.perFte = total
        /\ IsFinite(total) =>
             IsFinite(u.perNode) /\ IsFinite(u.perCookbook) /\ IsFinite(u.perFte)

\* a report with a positive total for a snapshot without nodes, cookbooks or
\* dedicated engineers but with a part-time contributor
C15_Witness ==
  /\ pc = "report"
  /\ data.infrastructure.totalManagedNodes = R(0)
  /\ data.cookbooks.activeCookbooks = R(0)
  /\ data.team.dedicatedEngineers = R(0)
  /\ RGt(data.team.partTimeContributors, R(0))
  /\ RGt(report.costBreakdown.totalAnnualTco, R(0))
  /\ report.perUnitCosts.perFte = report.costBreakdown.totalAnnualTco

C17_YearCosts ==
  \A x \in ScenariosSeen :
    LET newLicense == RMul(data.infrastructure.totalManagedNodes,
                           BENCHMARKS.alternatives[x.s.platform].perNodeCost)
        labor      == RAdd(RAdd(x.tco.platformLaborCost, x.tco.distributedLaborCost),
                           x.tco.incidentCost)
        newLabor   == RMul(Q(70, 100), labor)
        newInfra   == RMul(Q(70, 100), x.tco.infrastructureCost)
    IN  /\ x.s.migrationCost = calculateMigrationCost(data, x.s.platform)
        /\ x.s.year1Cost =
             RAdd(RAdd(RAdd(RAdd(x.s.migrationCost,
               RMul(Q(1, 2), newLicense)),
               RMul(Q(1, 2), data.licensing.annualLicenseCost)),
               RMul(Q(12, 10), labor)),
               newInfra)
        /\ x.s.year2Cost =
             RAdd(RAdd(RAdd(newLicense,
               RMul(Q(11, 10), newLabor)),
               newInfra),
               RMul(Q(1, 2), data.licensing.annualTrainingBudget))
        /\ x.s.year3Cost =
             RAdd(RAdd(newLicense, newLabor), RMul(Q(9, 10), newInfra))

\* a scenario in which every term of the three formulas is positive
C17_Witness ==
  \E x \in ScenariosSeen :
    /\ RGt(x.s.migrationCost, R(0))
    /\ RGt(data.infrastructure.totalManagedNodes, R(0))
    /\ RGt(data.licensing.annualLicenseCost, R(0))
    /\ RGt(data.licensing.annualTrainingBudget, R(0))
    /\ RGt(x.tco.laborCosts, R(0))
    /\ RGt(x.tco.infrastructureCost, R(0))
    /\ RGt(x.s.year1Cost, x.s.year2Cost)
    /\ RGt(x.s.year2Cost, x.s.year3Cost)

\* ------------------------------------------------------------------
\* C18
\* ------------------------------------------------------------------
\* C18: every scenario has threeYearTotal = year1Cost + year2Cost +
\* year3Cost and savingsPercent = (3 x totalAnnualTco - threeYearTotal) /
\* (3 x totalAnnualTco) x 100, computed as the code's doubles compute it;
\* the baseline is the flat 3 x totalAnnualTco, so that whenever the TCO is
\* positive and the three-year total is not 0 the value differs from the one
\* the 3.15 x totalAnnualTco growth baseline of the charts would give.
C18_FlatThreeYearBaseline ==
  \A x \in ScenariosSeen :
    LET total  == x.tco.totalAnnualTco
        flat   == RMul(R(3), total)
        growth == RMul(Q(315, 100), total)
    IN  /\ x.s.threeYearTotal =
             RAdd(RAdd(x.s.year1Cost, x.s.year2Cost), x.s.year3Cost)
        /\ x.s.savingsPercent =
             RMul(RDiv(RSub(flat, x.s.threeYearTotal), flat), R(100))
        /\ (RGt(total, R(0)) /\ x.s.threeYearTotal # R(0)) =>
             x.s.savingsPercent #
               RMul(RDiv(RSub(growth, x.s.threeYearTotal), growth), R(100))

\* a scenario of a snapshot with a positive TCO that saves money over three
\* years against the flat baseline
C18_Witness ==
  \E x \in ScenariosSeen :
    /\ RGt(x.tco.totalAnnualTco, R(0))
    /\ RGt(x.s.threeYearTotal, R(0))
    /\ RGt(x.s.savingsPercent, R(0))
    /\ RLt(x.s.savingsPercent, R(100))

\* ------------------------------------------------------------------
\* C19
\* ------------------------------------------------------------------
\* C19: the migration cost of every scenario is labor + training + learning
\* + tooling, where hourly rate = averageSalary x benefitsMultiplier / 2080,
\* labor = (4 x tier1Simple + 16 x tier2Standard + 40 x tier3Complex) x the
\* platform's migration factor x hourly rate, training = dedicatedEngineers
\* x 80 x hourly rate, learning = dedicatedEngineers x (fully-loaded salary
\* / 2) x 0.2 and tooling = 0.1 x labor.
C19_MigrationCostParts ==
  \A x \in ScenariosSeen :
    LET loaded   == RMul(data.team.averageSalary, data.team.benefitsMultiplier)
        rate     == RDiv(loaded, R(2080))
        hours    == RAdd(RAdd(RMul(R(4), data.cookbooks.tier1Simple),
                              RMul(R(16), data.cookbooks.tier2Standard)),
                         RMul(R(40), data.cookbooks.tier3Complex))
        factor   == IF x.s.platform = "ansible" THEN R(1)
                    ELSE IF x.s.platform = "kubernetes" THEN Q(18, 10)
                    ELSE IF x.s.platform = "terraform" THEN Q(12, 10)
                    ELSE Q(7, 10)
        labor    == RMul(RMul(hours, factor), rate)
        training == RMul(RMul(data.team.dedicatedEngineers, R(80)), rate)
        learning == RMul(RMul(data.team.dedicatedEngineers, RDiv(loaded, R(2))), Q(2, 10))
        tooling  == RMul(Q(1, 10), labor)
    IN  x.s.migrationCost = RAdd(RAdd(RAdd(labor, training), learning), tooling)

\* a scenario for a snapshot with cookbooks in every tier and dedicated
\* engineers, so that all four parts are positive
C19_Witness ==
  \E x \in ScenariosSeen :
    /\ RGt(data.cookbooks.tier1Simple, R(0))
    /\ RGt(data.cookbooks.tier2Standard, R(0))
    /\ RGt(data.cookbooks.tier3Complex, R(0))
    /\ RGt(data.team.dedicatedEngineers, R(0))
    /\ x.s.platform = "kubernetes"
    /\ RGt(x.s.migrationCost, R(0))

defaultData ==
  [infrastructure |-> [totalManagedNodes      |-> R(10000),
                       productionNodes        |-> R(7000),
                       stagingNodes           |-> R(2000),
                       developmentNodes       |-> R(1000),
                       chefServerCount        |-> R(3),
                       monthlyServerCost      |-> R(4000),
                       chefRunIntervalMinutes |-> R(30)],
   cookbooks      |-> [totalCookbooks      |-> R(500),
                       uniqueCookbookNames |-> R(200),
                       activeCookbooks     |-> R(150),
                       tier1Simple         |-> R(90),
                       tier2Standard       |-> R(45),
                       tier3Complex        |-> R(15),
                       avgCookbooksPerNode |-> R(10)],
   team           |-> [dedicatedEngineers    |-> R(5),
                       partTimeContributors  |-> R(15),
                       partTimeAllocationPct |-> R(20),
                       averageSalary         |-> R(165000),
                       benefitsMultiplier    |-> Q(14, 10)],
   incidents      |-> [monthlyIncidents     |-> R(5),
                       averageMttrHours     |-> R(4),
                       engineersPerIncident |-> R(2)],
   licensing      |-> [annualLicenseCost     |-> R(550000),
                       negotiatedRatePerNode |-> R(55),
                       annualTrainingBudget  |-> R(25000),
                       monthlyCicdCost       |-> R(2000),
                       annualContractorSpend |-> R(50000)]]

\* the preset buttons, in display order; descriptionNodes is the node count
\* printed in the preset's description
presetScenarios ==
  << [id |-> "small",  descriptionNodes |-> 5000,   nodes |-> 5000,   cookbooks |-> 100],
     [id |-> "medium", descriptionNodes |-> 25000,  nodes |-> 25000,  cookbooks |-> 500],
     [id |-> "large",  descriptionNodes |-> 100000, nodes |-> 100000, cookbooks |-> 5000],
     [id |-> "ultra",  descriptionNodes |-> 200000, nodes |-> 200000, cookbooks |-> 90000] >>

\* Math.round on a finite natively held number: the nearest integer, ties upward
MathRound(x) == R((2 * x.n + x.d) \div (2 * x.d))

\* Math.ceil on a finite natively held number
MathCeil(x) == R(-((-x.n) \div x.d))

\* presetScenarios.find((p) => p.id === presetId): the first match, or null
findPreset(presetId) ==
  LET hits == { i \in 1..Len(presetScenarios) : presetScenarios[i].id = presetId }
  IN  IF hits = { } THEN null
      ELSE presetScenarios[CHOOSE i \in hits : \A j \in hits : i <= j]

\* the scaled snapshot with a fifth of the nodes in development
scalePreset_developmentFifth(preset) ==
  LET nodes     == R(preset.nodes)
      cookbooks == R(preset.cookbooks)
  IN  [defaultData EXCEPT
         !.infrastructure.totalManagedNodes = nodes,
         !.infrastructure.productionNodes   = MathRound(RMul(nodes, Q(7, 10))),
         !.infrastructure.stagingNodes      = MathRound(RMul(nodes, Q(2, 10))),
         !.infrastructure.developmentNodes  = MathRound(RMul(nodes, Q(2, 10))),
         !.infrastructure.chefServerCount   = RMax(R(1), MathCeil(RDiv(nodes, R(15000)))),
         !.cookbooks.totalCookbooks      = RMul(cookbooks, R(3)),
         !.cookbooks.activeCookbooks     = cookbooks,
         !.cookbooks.uniqueCookbookNames = MathRound(RMul(cookbooks, Q(6, 10))),
         !.cookbooks.tier1Simple         = MathRound(RMul(cookbooks, Q(6, 10))),
         !.cookbooks.tier2Standard       = MathRound(RMul(cookbooks, Q(3, 10))),
         !.cookbooks.tier3Complex        = MathRound(RMul(cookbooks, Q(1, 10))),
         !.team.dedicatedEngineers   = RMax(R(2), MathRound(RDiv(nodes, R(5000)))),
         !.team.partTimeContributors = MathRound(RDiv(nodes, R(2000))),
         !.licensing.annualLicenseCost = RMul(nodes, R(55))]

\* the snapshot loadPreset scales from defaultData for a found preset
scalePreset(preset) ==
  LET nodes     == R(preset.nodes)
      cookbooks == R(preset.cookbooks)
  IN  [defaultData EXCEPT
         !.infrastructure.totalManagedNodes = nodes,
         !.infrastructure.productionNodes   = MathRound(RMul(nodes, Q(7, 10))),
         !.infrastructure.stagingNodes      = MathRound(RMul(nodes, Q(2, 10))),
         !.infrastructure.developmentNodes  = MathRound(RMul(nodes, Q(1, 10))),
         !.infrastructure.chefServerCount   = RMax(R(1), MathCeil(RDiv(nodes, R(15000)))),
         !.cookbooks.totalCookbooks      = RMul(cookbooks, R(3)),
         !.cookbooks.activeCookbooks     = cookbooks,
         !.cookbooks.uniqueCookbookNames = MathRound(RMul(cookbooks, Q(6, 10))),
         !.cookbooks.tier1Simple         = MathRound(RMul(cookbooks, Q(6, 10))),
         !.cookbooks.tier2Standard       = MathRound(RMul(cookbooks, Q(3, 10))),
         !.cookbooks.tier3Complex        = MathRound(RMul(cookbooks, Q(1, 10))),
         !.team.dedicatedEngineers   = RMax(R(2), MathRound(RDiv(nodes, R(5000)))),
         !.team.partTimeContributors = MathRound(RDiv(nodes, R(2000))),
         !.licensing.annualLicenseCost = RMul(nodes, R(55))]

\* loadPreset(presetId): the snapshot handed to onDataChange, or null when
\* the handler returns without calling it
loadPreset(presetId) ==
  IF presetId = "ultra" THEN sampleData
  ELSE IF presetId = "default" THEN defaultData
  ELSE LET preset == findPreset(presetId)
       IN  IF preset = null THEN null ELSE scalePreset(preset)

\* ------------------------------------------------------------------
\* Web UI pages (pages/Benchmarks.tsx, pages/Scenarios.tsx, components/Charts.tsx)
\* ------------------------------------------------------------------
\* the navigation items (components/Layout.tsx)
TabIds == << "dashboard", "data", "benchmarks", "scenarios", "report", "help" >>

getCookbookRatioStatus(health) ==
  IF RGt(health.cookbookRatio, healthThresholds.cookbookRatio.critical) THEN "critical"
  ELSE IF RGt(health.cookbookRatio, healthThresholds.cookbookRatio.healthy) THEN "warning"
  ELSE "healthy"

getFteEfficiencyStatus(health) ==
  IF RLt(health.cookbooksPerFte, healthThresholds.cookbooksPerFte.critical) THEN "critical"
  ELSE IF RLt(health.cookbooksPerFte, healthThresholds.cookbooksPerFte.healthy) THEN "warning"
  ELSE "healthy"

\* the first two rows of the Benchmarks table: the value, the three printed
\* ranges and the status badge
Benchmarks(rep) ==
  [view |-> "benchmarks",
   ratioRow |-> [metric            |-> "Cookbooks per 1,000 Nodes",
                 currentValue      |-> rep.healthMetrics.cookbookRatio,
                 healthyRange      |-> "< 25",
                 warningRange      |-> "25 - 100",
                 criticalThreshold |-> "> 100",
                 status            |-> getCookbookRatioStatus(rep.healthMetrics)],
   fteRow   |-> [metric            |-> "Cookbooks per FTE",
                 currentValue      |-> rep.healthMetrics.cookbooksPerFte,
                 healthyRange      |-> "> 150",
                 warningRange      |-> "75 - 150",
                 criticalThreshold |-> "< 75",
                 status            |-> getFteEfficiencyStatus(rep.healthMetrics)]]

\* the chart's data rows: the current state first, then one row per scenario
ScenarioComparisonChart(scenarios, currentTco) ==
  << [name  |-> "Current (Chef)",
      year1 |-> currentTco,
      year2 |-> RMul(currentTco, Q(105, 100)),
      year3 |-> RMul(currentTco, Q(11, 10)),
      total |-> RMul(currentTco, Q(315, 100))] >>
  \o [i \in 1..Len(scenarios) |->
        [name  |-> scenarios[i].platform,
         year1 |-> scenarios[i].year1Cost,
         year2 |-> scenarios[i].year2Cost,
         year3 |-> scenarios[i].year3Cost,
         total |-> scenarios[i].threeYearTotal]]

\* the cumulative current-state cost the timeline plots at year index
currentCumulative_doubleGrowth(currentTco, index) ==
  RMul(RMul(currentTco, R(index)), RAdd(R(1), RMul(R(index - 1), Q(5, 100))))

currentCumulative(currentTco, index) ==
  RMul(RMul(currentTco, R(index)), RAdd(R(1), RMul(R(index - 1), Q(25, 1000))))

\* the cumulative cost of one scenario at year index
scenarioCumulative(s, index) ==
  RAdd(RAdd(IF index >= 1 THEN s.year1Cost ELSE R(0),
            IF index >= 2 THEN s.year2Cost ELSE R(0)),
       IF index >= 3 THEN s.year3Cost ELSE R(0))

\* the chart's points for Year 0 .. Year 3 (point i + 1 is year index i); the
\* platforms' values are listed in the order of scenarios
TimelineChart(scenarios, currentTco) ==
  [k \in 1..4 |->
     IF k - 1 = 0
     THEN [year |-> k - 1, current |-> R(0),
           platforms |-> [i \in 1..Len(scenarios) |-> R(0)]]
     ELSE [year |-> k - 1, current |-> currentCumulative(currentTco, k - 1),
           platforms |-> [i \in 1..Len(scenarios) |->
                            scenarioCumulative(scenarios[i], k - 1)]]]

\* the initial value fixed to the fallback platform
initialSelectedPlatform_fallbackOnly(rep) == "ansible"

\* useState initial value of the Scenarios page: scenarios[0]?.platform || 'ansible'
initialSelectedPlatform(rep) ==
  IF Len(rep.scenarios) > 0 THEN rep.scenarios[1].platform ELSE "ansible"

\* the Scenarios page: the banner's 3-year projection, one card per scenario
\* and the two charts
Scenarios(rep) ==
  [view |-> "scenarios",
   currentTco      |-> rep.costBreakdown.totalAnnualTco,
   projection3Year |-> RMul(rep.costBreakdown.totalAnnualTco, Q(315, 100)),
   cards      |-> [i \in 1..Len(rep.scenarios) |-> rep.scenarios[i].platform],
   comparison |-> ScenarioComparisonChart(rep.scenarios, rep.costBreakdown.totalAnnualTco),
   timeline   |-> TimelineChart(rep.scenarios, rep.costBreakdown.totalAnnualTco)]

\* what App renders for the active tab; the other four pages are not modelled
RenderPage(tab, rep) ==
  IF tab = "benchmarks" THEN Benchmarks(rep)
  ELSE IF tab = "scenarios" THEN Scenarios(rep)
  ELSE [view |-> tab]

\* ------------------------------------------------------------------
\* Web UI state machine (App.tsx, pages/DataInput.tsx, pages/Scenarios.tsx)
\* ------------------------------------------------------------------
\* manual field edits modelled between two loads of a whole data set
MaxEdits == 1

\* << field, typed value >> pairs offered to each section's update handler
InfrastructureEdits == { << "totalManagedNodes", R(0) >> }

CookbookEdits == { << "activeCookbooks", R(1500) >> }

TeamEdits == { << "dedicatedEngineers", R(0) >> }

IncidentEdits == { << "monthlyIncidents", R(0) >> }

LicensingEdits == { << "annualLicenseCost", R(0) >> }

\* App mounted: activeTab 'dashboard', data sampleData, report memoised
UIInit ==
  /\ data = sampleData
  /\ report = generateAnalysisReport(sampleData)
  /\ activeTab = "dashboard"
  /\ selectedPlatform = none
  /\ page = RenderPage("dashboard", report)
  /\ edits = 0
  /\ pc = "ui"
  /\ healthMetrics = none
  /\ costBreakdown = none
  /\ scenario = none

\* the re-render with a memo that is never recomputed
Rerender_staleReport ==
  /\ report' = report
  /\ page' = RenderPage(activeTab', report')
  /\ UNCHANGED engineVars

\* App re-renders after setData: useMemo recomputes the report from the new
\* data, and the page of the active tab is rendered with it
Rerender ==
  /\ report' = generateAnalysisReport(data')
  /\ page' = RenderPage(activeTab', report')
  /\ UNCHANGED engineVars

\* handleNavigate(tab): leaving the Scenarios tab unmounts the page and drops
\* its selection, entering it mounts the page with the initial selection; data
\* is untouched, so useMemo returns the report it holds
HandleNavigate ==
  \E i \in 1..Len(TabIds) :
    /\ activeTab' = TabIds[i]
    /\ selectedPlatform' =
         IF TabIds[i] # "scenarios" THEN none
         ELSE IF activeTab = "scenarios" THEN selectedPlatform
         ELSE initialSelectedPlatform(report)
    /\ page' = RenderPage(TabIds[i], report)
    /\ UNCHANGED << data, report, edits >>
    /\ UNCHANGED engineVars

\* ScenarioCard onSelect: setSelectedPlatform(scenario.platform)
SelectScenario ==
  /\ activeTab = "scenarios"
  /\ \E i \in 1..Len(report.scenarios) :
       selectedPlatform' = report.scenarios[i].platform
  /\ page' = RenderPage(activeTab, report)
  /\ UNCHANGED << data, report, activeTab, edits >>
  /\ UNCHANGED engineVars

\* Reset button: onDataChange(defaultData)
ResetData ==
  /\ data' = defaultData
  /\ edits' = 0

\* Load Sample button: onDataChange(sampleData)
LoadSample ==
  /\ data' = sampleData
  /\ edits' = 0

\* a preset button: loadPreset(preset.id)
LoadPreset ==
  /\ \E i \in 1..Len(presetScenarios) :
       /\ loadPreset(presetScenarios[i].id) # null
       /\ data' = loadPreset(presetScenarios[i].id)
  /\ edits' = 0

\* a field's onChange with the typed number: the section's update handler
\* replaces that one field
UpdateInfrastructure ==
  /\ edits < MaxEdits
  /\ \E e \in InfrastructureEdits : data' = [data EXCEPT !.infrastructure[e[1]] = e[2]]
  /\ edits' = edits + 1

UpdateCookbooks ==
  /\ edits < MaxEdits
  /\ \E e \in CookbookEdits : data' = [data EXCEPT !.cookbooks[e[1]] = e[2]]
  /\ edits' = edits + 1

UpdateTeam ==
  /\ edits < MaxEdits
  /\ \E e \in TeamEdits : data' = [data EXCEPT !.team[e[1]] = e[2]]
  /\ edits' = edits + 1

UpdateIncidents ==
  /\ edits < MaxEdits
  /\ \E e \in IncidentEdits : data' = [data EXCEPT !.incidents[e[1]] = e[2]]
  /\ edits' = edits + 1

UpdateLicensing ==
  /\ edits < MaxEdits
  /\ \E e \in LicensingEdits : data' = [data EXCEPT !.licensing[e[1]] = e[2]]
  /\ edits' = edits + 1

\* a click or an edit on the Data Input page, which App renders on the
\* 'data' tab only: the handler calls onDataChange (setData) and App
\* re-renders; the Scenarios page stays unmounted
DataChange ==
  /\ activeTab = "data"
  /\ \/ ResetData
     \/ LoadSample
     \/ LoadPreset
     \/ UpdateInfrastructure
     \/ UpdateCookbooks
     \/ UpdateTeam
     \/ UpdateIncidents
     \/ UpdateLicensing
  /\ UNCHANGED << activeTab, selectedPlatform >>
  /\ Rerender

UINext ==
  \/ HandleNavigate
  \/ SelectScenario
  \/ DataChange

UISpec == UIInit /\ [][UINext]_vars

\* ------------------------------------------------------------------
\* C21
\* On the Benchmarks page the status badge of a row agrees with the ranges
\* printed in that row: 'Cookbooks per 1,000 Nodes' is healthy below 25,
\* warning from 25 to 100 and critical above 100; 'Cookbooks per FTE' is
\* healthy above 150, warning from 75 to 150 and critical below 75.
\* ------------------------------------------------------------------
C21_BenchmarkStatusMatchesRows ==
  activeTab = "benchmarks" =>
    LET ratio == page.ratioRow.currentValue
        fte   == page.fteRow.currentValue
    IN  /\ page.ratioRow.status =
             (IF RLt(ratio, R(25)) THEN "healthy"
              ELSE IF RLe(ratio, R(100)) THEN "warning"
              ELSE "critical")
        /\ page.fteRow.status =
             (IF RGt(fte, R(150)) THEN "healthy"
              ELSE IF RGe(fte, R(75)) THEN "warning"
              ELSE "critical")

\* ------------------------------------------------------------------
\* C22
\* Two snapshots that differ only in productionNodes, stagingNodes,
\* developmentNodes, chefRunIntervalMinutes, totalCookbooks,
\* uniqueCookbookNames, avgCookbooksPerNode or negotiatedRatePerNode produce
\* identical reports: the report of the snapshot equals the report of the
\* snapshots obtained from it by changing these fields and nothing else.
\* ------------------------------------------------------------------
\* two snapshots that differ from d in all eight fields and in nothing else:
\* every field raised by 7, and every field set to 0 (to 1 where it holds 0)
C22_Variants(d) ==
  LET other(x) == IF x = R(0) THEN R(1) ELSE R(0)
      up(x)    == RAdd(x, R(7))
  IN  { [d EXCEPT !.infrastructure.productionNodes = up(@),
                  !.infrastructure.stagingNodes = up(@),
                  !.infrastructure.developmentNodes = up(@),
                  !.infrastructure.chefRunIntervalMinutes = up(@),
                  !.cookbooks.totalCookbooks = up(@),
                  !.cookbooks.uniqueCookbookNames = up(@),
                  !.cookbooks.avgCookbooksPerNode = up(@),
                  !.licensing.negotiatedRatePerNode = up(@)],
        [d EXCEPT !.infrastructure.productionNodes = other(@),
                  !.infrastructure.stagingNodes = other(@),
                  !.infrastructure.developmentNodes = other(@),
                  !.infrastructure.chefRunIntervalMinutes = other(@),
                  !.cookbooks.totalCookbooks = other(@),
                  !.cookbooks.uniqueCookbookNames = other(@),
                  !.cookbooks.avgCookbooksPerNode = other(@),
                  !.licensing.negotiatedRatePerNode = other(@)] }

C23_ScenarioOf(platform) ==
  report.scenarios[CHOOSE i \in 1..Len(report.scenarios) :
                     report.scenarios[i].platform = platform]

C23_TerraformDominatesKubernetes ==
  pc = "report" =>
    LET t == C23_ScenarioOf("terraform")
        k == C23_ScenarioOf("kubernetes")
    IN  /\ RLe(t.year1Cost, k.year1Cost)
        /\ RLe(t.year2Cost, k.year2Cost)
        /\ RLe(t.year3Cost, k.year3Cost)
        /\ RGe(t.npv3Year, k.npv3Year)
        /\ report.scenarios[1].platform # "kubernetes"

\* Kubernetes beats Ansible and Puppet and is second, right behind Terraform
C23_Witness ==
  /\ pc = "report"
  /\ RGt(data.infrastructure.totalManagedNodes, R(0))
  /\ RGt(data.cookbooks.tier1Simple, R(0))
  /\ report.scenarios[1].platform = "terraform"
  /\ report.scenarios[2].platform = "kubernetes"
  /\ RGt(report.scenarios[1].npv3Year, report.scenarios[2].npv3Year)
  /\ RLt(report.scenarios[1].year1Cost, report.scenarios[2].year1Cost)

\* ------------------------------------------------------------------
\* C24
\* In every report the consolidation recommendation and the debt-tax
\* recommendation appear together or not at all: cookbookRatio > 100 holds
\* exactly when the looked-up debtMultiplier is >= 1.5.
\* ------------------------------------------------------------------
\* the report holds a recommendation of this kind
C24_Recommends(kind) ==
  \E i \in 1..Len(report.recommendations) : report.recommendations[i].kind = kind

C24_ConsolidateIffDebtTax ==
  pc = "report" =>
    /\ C24_Recommends("consolidate") <=> C24_Recommends("debt_tax")
    /\ RGt(report.healthMetrics.cookbookRatio, R(100))
         <=> RGe(report.healthMetrics.debtMultiplier, Q(15, 10))
    /\ C24_Recommends("consolidate") <=> RGt(report.healthMetrics.cookbookRatio, R(100))

\* both recommendations present at the smallest multiplier that triggers them
C24_Witness ==
  /\ pc = "report"
  /\ C24_Recommends("consolidate")
  /\ C24_Recommends("debt_tax")
  /\ report.healthMetrics.debtMultiplier = Q(15, 10)

C26_NonNegativeFields(d) ==
  \A section \in DOMAIN d : \A key \in DOMAIN d[section] :
    IsFinite(d[section][key]) /\ RGe(d[section][key], R(0))

C26_CostsNonNegative ==
  C26_NonNegativeFields(data) =>
    /\ \A x \in CostsSeen :
         /\ \A item \in { x.tco.licensingCost, x.tco.infrastructureCost,
                          x.tco.platformLaborCost, x.tco.distributedLaborCost,
                          x.tco.incidentCost, x.tco.technicalDebtTax,
                          x.tco.trainingCost, x.tco.contractorCost,
                          x.tco.opportunityCost } :
              RGe(item, R(0))
         /\ RGe(x.tco.totalAnnualTco, RAdd(x.tco.directCosts, x.tco.laborCosts))
    /\ \A x \in ScenariosSeen :
         /\ RGe(x.s.migrationCost, R(0))
         /\ RGe(x.s.year1Cost, R(0))
         /\ RGe(x.s.year2Cost, R(0))
         /\ RGe(x.s.year3Cost, R(0))

\* a scenario with every cost positive, computed from a breakdown whose
\* debt tax is positive
C26_Witness ==
  /\ pc = "scenario"
  /\ C26_NonNegativeFields(data)
  /\ RGt(costBreakdown.technicalDebtTax, R(0))
  /\ RGt(costBreakdown.incidentCost, R(0))
  /\ RGt(costBreakdown.totalAnnualTco,
         RAdd(costBreakdown.directCosts, costBreakdown.laborCosts))
  /\ RGt(scenario.migrationCost, R(0))
  /\ RGt(scenario.year3Cost, R(0))

\* ------------------------------------------------------------------
\* C27
\* In the web UI, after any sequence of tab navigations, field edits, Reset,
\* Load Sample and preset clicks, the report passed to the pages equals
\* generateAnalysisReport applied to the current data; a step that changes
\* the active tab leaves the data and the report unchanged, and a step that
\* changes the data leaves the active tab unchanged.
\* ------------------------------------------------------------------
C27_ReportFollowsData ==
  /\ [](report = generateAnalysisReport(data))
  /\ [][/\ activeTab' # activeTab => data' = data /\ report' = report
        /\ data' # data => activeTab' = activeTab]_vars

\* a page other than Data Input showing the report of manually edited data
C27_Witness ==
  /\ activeTab = "report"
  /\ edits = 1
  /\ data.team.dedicatedEngineers = R(0)
  /\ data # defaultData
  /\ data # sampleData
  /\ report = generateAnalysisReport(data)

\* ------------------------------------------------------------------
\* C28
\* Whenever the Scenarios page is displayed, the selected platform is the
\* platform of one of the four scenarios of the current report; every entry
\* to the Scenarios tab (also after the data was changed on the Data Input
\* tab) starts with the top-ranked scenario selected; and clicking a scenario
\* card changes only the selection.
\* ------------------------------------------------------------------
C28_SelectionIsAScenario ==
  /\ [](activeTab = "scenarios" =>
          /\ Len(report.scenarios) = 4
          /\ \E i \in 1..4 : report.scenarios[i].platform = selectedPlatform)
  /\ [][/\ (activeTab # "scenarios" /\ activeTab' = "scenarios")
             => selectedPlatform' = report'.scenarios[1].platform
        /\ (activeTab = "scenarios" /\ activeTab' = "scenarios")
             => UNCHANGED << data, report, activeTab, page, edits >>]_vars

\* the Scenarios page entered after a field edit, with a card other than the
\* top-ranked one selected
C28_Witness ==
  /\ activeTab = "scenarios"
  /\ edits = 1
  /\ selectedPlatform = report.scenarios[3].platform
  /\ selectedPlatform # initialSelectedPlatform(report)

\* ------------------------------------------------------------------
\* C29
\* Every snapshot reached from the initial sample data with the Reset
\* button, the Load Sample button and the four preset buttons only (no
\* manual field edit) is internally consistent: the three tiers add up to
\* activeCookbooks, the production, staging and development nodes add up to
\* totalManagedNodes, and a preset's totalManagedNodes is the node count in
\* that preset's description.
\* ------------------------------------------------------------------
C29_LoadedDataConsistent ==
  edits = 0 =>
    /\ RAdd(RAdd(data.cookbooks.tier1Simple, data.cookbooks.tier2Standard),
            data.cookbooks.tier3Complex) = data.cookbooks.activeCookbooks
    /\ RAdd(RAdd(data.infrastructure.productionNodes, data.infrastructure.stagingNodes),
            data.infrastructure.developmentNodes) = data.infrastructure.totalManagedNodes
    /\ \A i \in 1..Len(presetScenarios) :
         data = loadPreset(presetScenarios[i].id) =>
           data.infrastructure.totalManagedNodes = R(presetScenarios[i].descriptionNodes)

\* the 'Small Enterprise' preset loaded: 5,000 nodes split 3,500 / 1,000 / 500
\* and three part-time contributors (2.5 rounded up)
C29_Witness ==
  /\ edits = 0
  /\ data = loadPreset("small")
  /\ data # sampleData
  /\ data.infrastructure.productionNodes = R(3500)
  /\ data.team.partTimeContributors = R(3)
  /\ activeTab # "data"

\* ------------------------------------------------------------------
\* C30
\* The current-state (Chef) growth baseline is the same in every view of
\* the Scenarios page: the cumulative current-state cost plotted by
\* TimelineChart at year k (k = 1, 2, 3) is the sum of the first k yearly
\* current-state values of ScenarioComparisonChart (TCO, 1.05 x TCO,
\* 1.10 x TCO), and the year-3 cumulative is the 3.15 x TCO '3-Year
\* Projection' of the banner.
\* ------------------------------------------------------------------
C30_GrowthBaselineConsistent ==
  activeTab = "scenarios" =>
    LET chef     == page.comparison[1]
        current(k) == page.timeline[k + 1].current
    IN  /\ chef.year1 = page.currentTco
        /\ chef.year2 = RMul(page.currentTco, Q(105, 100))
        /\ chef.year3 = RMul(page.currentTco, Q(110, 100))
        /\ current(1) = chef.year1
        /\ current(2) = RAdd(chef.year1, chef.year2)
        /\ current(3) = RAdd(RAdd(chef.year1, chef.year2), chef.year3)
        /\ current(3) = page.projection3Year
        /\ page.projection3Year = RMul(page.currentTco, Q(315, 100))

\* the Scenarios page of the medium preset, a TCO that is not a whole number
C30_Witness ==
  /\ activeTab = "scenarios"
  /\ data = loadPreset("medium")
  /\ RGt(page.currentTco, R(0))
  /\ page.timeline[3].current = RMul(page.currentTco, Q(205, 100))
  /\ RGt(page.timeline[4].current, page.timeline[3].current)
  /\ page.currentTco.d # 1

=============================================================================
